---- MODULE Spec2Model ----
(***************************************************************************)
(* ldaptoid: a read-only LDAP view of an OIDC identity provider.           *)
(*                                                                         *)
(* The model covers the refresh scheduler (RefreshScheduler), the snapshot *)
(* builder's sequence counter, the publication of snapshots to the LDAP    *)
(* server through the snapshot-update callback, and one LDAP connection    *)
(* served by LDAPServer.handleConnection: the buffer of received requests, *)
(* LDAPCodec.tryDecode, and the Bind / Search / Unbind / default cases.    *)
(* It also covers IdAllocator with the ids SnapshotBuilder gives the users *)
(* and groups of a snapshot, OAuth2Client.getAccessToken, the adaptor      *)
(* that main constructs with the token, the users, groups and memberships  *)
(* SnapshotBuilder puts into a snapshot, and the probes of HealthService.  *)
(*                                                                         *)
(* JavaScript runs one task at a time: a handler runs until it awaits.     *)
(* Every action below is one such run-to-await segment.  Continuations of  *)
(* an await that has resolved (the microtask queue) run before any timer   *)
(* or I/O event is dispatched; `retQueue` is that queue for the callers of *)
(* performRefresh.                                                         *)
(***************************************************************************)
EXTENDS Integers, Sequences, FiniteSets, TLC

\* ------------------------------------------------------------------------
\* Bounds of the model
\* ------------------------------------------------------------------------

\* options.maxRetries as configured for the runs explored here
MaxRetries == 4

\* performRefresh invocations explored in one behaviour
MaxAttempts == 5

\* performRefresh invocations that may be in flight at once
MaxTasks == 2

\* options.sizeLimit (ldapSizeLimit) as configured for the runs explored here
ServerSizeLimit == 3

\* requests a client sends on one connection (their messageIDs are 1, 2, ...)
MaxRequests == 3

\* requests that may wait in the connection's buffer at once
MaxPipelined == 2

\* pairs in one list handed to importMapping
MaxImported == 2

\* restarts of the process
MaxRestarts == 1

\* concurrent callers of getAccessToken
MaxCallers == 2

\* seconds that pass on the clock
MaxTicks == 3

\* token fetches started
MaxTokens == 2

\* builds the adaptor serves
MaxBuilds == 2

\* options.maxGroupMembers of the SnapshotBuilder for the runs explored here
\* (5000 when the options give none)
MaxGroupMembers == 2

\* ------------------------------------------------------------------------
\* Program constants
\* ------------------------------------------------------------------------

\* options.backoffMultiplier ?? 2.0
backoffMultiplier == 2

\* LDAPResultCode values used by the server
Success == 0
OperationsError == 1
ProtocolError == 2
AuthMethodNotSupported == 7
InvalidCredentials == 49
SizeLimitExceeded == 4
InsufficientAccessRights == 50
Unavailable == 52

UnwillingToPerform == 53

\* IdAllocator: `floor: 10000` as main constructs both allocators, and
\* `opts.retryLimit ?? 4`
floor == 10000
retryLimit == 4

\* OAuth2Client.bufferSeconds
bufferSeconds == 30

VARIABLES
    \* --- configuration, fixed at construction ---
    refreshIntervalMs,      \* RefreshScheduler.refreshIntervalMs
    maxBackoffMs,           \* RefreshScheduler.maxBackoffMs
    bindDN,                 \* LDAPServer.bindDN   (<<>> = undefined)
    bindPassword,           \* LDAPServer.bindPassword (<<>> = undefined)
    allowAnonymousBind,     \* LDAPServer.allowAnonymousBind
    \* --- RefreshScheduler ---
    currentSnapshot,        \* <<>> = undefined, <<s>> = snapshot s
    isRunning,
    timeoutId,              \* 0 = undefined, else id of the last timer set
    consecutiveFailures,
    currentBackoffMs,
    \* --- runtime: timers and pending promises ---
    pendingTimers,          \* set of [id, delay]: setTimeout calls not yet fired/cleared
    nextTimerId,
    inflight,               \* [kind -> number of performRefresh calls awaiting buildSnapshot]
    retQueue,               \* callers of performRefresh whose await has resolved
    \* --- SnapshotBuilder ---
    sequenceCounter,
    \* --- LDAPServer / SearchExecutor ---
    srvSnapshot,            \* LDAPServer.currentSnapshot
    executorSnapshot,       \* SearchExecutor.snapshot
    \* --- bookkeeping of the exploration ---
    attempts,               \* performRefresh invocations so far
    finished,               \* performRefresh invocations that have returned
    lastOutcome,            \* "none" | "ok" | "fail": result of the last one to return
    lastGood,               \* snapshot of the last successful build
    failStreak,             \* failed builds since the last success or start()
    callbackCount,          \* invocations of the snapshot-update callback
    \* --- one LDAP connection (the locals of handleConnection) ---
    connOpen,               \* the connection is accepted and not yet closed
    authenticated,          \* `let authenticated`
    lastReq,                \* the request decoded last
    resp,                   \* PDUs written in answer to lastReq, in order
    searchPc,               \* "none" | "writing": position inside handleSearch
    toWrite,                \* limitedEntries not yet written
    doneCode,               \* resultCode of the SearchResultDone still to write
    inbuf,                  \* `buffer`: messageIDs of the requests received, not yet consumed
    stalledOn,              \* "none", or the operation of the PDU tryDecode returned null for
    reqId,                  \* message.messageID of lastReq
    respIds,                \* messageID of each PDU of resp
    \* --- bookkeeping of the connection ---
    reqTick,                \* flips at every decoded request
    everBound,              \* some Bind on this connection was answered success
    everSentBind,           \* some Bind was sent on this connection
    dispatched,             \* lastReq was handed to handleSearch
    reqSnapshot,            \* LDAPServer.currentSnapshot when lastReq was dispatched
    sent,                   \* requests the client has sent on this connection
    \* --- the message decoded last, beyond its protocolOp ---
    controls,               \* `message.controls`, the `controls` of handleSearch
    doneControls,           \* `response.controls` of the SearchResultDone written for it
    wireFilter,             \* the kind of filter its SearchRequest carried on the wire
    \* --- LDAPtoIDMain.start ---
    listening,              \* `await refreshScheduler.start()` returned: ldapServer.start() ran
    \* --- IdAllocator, SnapshotBuilder and the mapping store ---
    salt,                   \* which behaviour of hashToInt the configured salt gives
    redisEnabled,           \* config.redisEnabled
    syntheticPrimaryGroup,  \* the feature 'synthetic_primary_group' is enabled
    uidAllocator,           \* the state of LDAPtoIDMain.uidAllocator
    gidAllocator,           \* the state of LDAPtoIDMain.gidAllocator
    mappingStore,           \* the pairs the Redis store holds
    builtSnapshot,          \* users and groups of the snapshot built last, with their ids
    lastAllocation,         \* the last call of allocate: key, AllocationResult
    firstReturned,          \* key -> the id allocate returned for it first
    maxImported,            \* the largest id importMapping has stored, 0 if none
    everAssigned,           \* per allocator: key -> the first id it was given, across restarts
    restarts,
    \* --- OAuth2Client and the adaptor ---
    tokenCache,             \* the entry of tokenCache for the one cache key
    now,                    \* Date.now(), in ms
    callerPc,               \* per caller: "idle" | "fetching" (awaiting fetchToken)
    served,                 \* per caller: the token getAccessToken returned last
    issued,                 \* tokens the IdP has issued
    lastCall,               \* the last call of getAccessToken: what it met and did
    tokenFetches,           \* calls of fetchToken so far
    adaptorToken,           \* KeycloakAdaptor.token
    build,                  \* the last build's fetchUsers: outcome, requests sent
    builds,
    \* --- SnapshotBuilder: users, groups and memberships ---
    fetched,                \* what the adaptor returned to the build of builtSnapshot
    \* --- HealthService ---
    readiness,              \* the last answer of getReadiness, and what it met
    liveness,               \* the last answer of getLiveness, and what it met
    \* --- the caller of the scheduler ---
    startCalled             \* start() was called and stop() has not been since

schedVars == <<currentSnapshot, isRunning, timeoutId, consecutiveFailures,
               currentBackoffMs, pendingTimers, nextTimerId, inflight, retQueue,
               sequenceCounter, srvSnapshot, executorSnapshot, attempts, finished,
               lastOutcome, lastGood, failStreak, callbackCount>>

cfgVars == <<refreshIntervalMs, maxBackoffMs, bindDN, bindPassword, allowAnonymousBind>>

connVars == <<connOpen, authenticated, lastReq, resp, searchPc, toWrite, doneCode,
              inbuf, stalledOn, reqId, respIds,
              reqTick, everBound, everSentBind, dispatched, reqSnapshot, sent,
              controls, doneControls, wireFilter>>

wireVars == <<controls, doneControls, wireFilter>>

idVars == <<salt, redisEnabled, syntheticPrimaryGroup, uidAllocator, gidAllocator,
            mappingStore, builtSnapshot, lastAllocation, firstReturned, maxImported,
            everAssigned, restarts>>

tokenVars == <<tokenCache, now, callerPc, served, issued, lastCall, tokenFetches,
               adaptorToken, build, builds>>

builderVars == <<fetched>>

healthVars == <<readiness, liveness>>

callVars == <<startCalled>>

vars == <<cfgVars, schedVars, connVars, listening, idVars, tokenVars,
          builderVars, healthVars, callVars>>

\* ------------------------------------------------------------------------
\* Values
\* ------------------------------------------------------------------------

Undefined == <<>>

Min(a, b) == IF a <= b THEN a ELSE b

Kinds == {"start", "timer", "force"}

\* What the adaptor may return for fetchUsers / fetchGroups (enabled users only
\* are kept by the builder; the outputs here differ so that two snapshots differ).
AdaptorOutputs ==
    { [users |-> <<"alice", "bob">>, groups |-> <<"devs">>],
      [users |-> <<"carol">>, groups |-> <<>>] }

\* (refreshIntervalMs, maxBackoffMs) pairs explored
SchedulerConfigs == { <<2, 16>>, <<4, 3>> }

InFlightCount == inflight["start"] + inflight["timer"] + inflight["force"]

\* ------------------------------------------------------------------------
\* RefreshScheduler
\* ------------------------------------------------------------------------

\* isHealthy()
isHealthy == consecutiveFailures < MaxRetries /\ currentSnapshot # Undefined

\* getCurrentSnapshot()
getCurrentSnapshot == currentSnapshot

\* The call of performRefresh up to its await of buildSnapshot (which awaits
\* the adaptor's fetches).
BeginRefresh(kind) ==
    /\ attempts < MaxAttempts
    /\ InFlightCount < MaxTasks
    /\ inflight' = [inflight EXCEPT ![kind] = @ + 1]
    /\ attempts' = attempts + 1

\* What the caller of performRefresh does when it gets the result back:
\* start() and the timer callback go on to scheduleNext(); forceRefresh()
\* just returns the result.
ReturnTo(kind) ==
    /\ inflight' = [inflight EXCEPT ![kind] = @ - 1]
    /\ retQueue' = IF kind = "force" THEN retQueue ELSE Append(retQueue, kind)
    /\ finished' = finished + 1

\* start()
Start ==
    /\ retQueue = <<>>
    /\ ~isRunning                       \* if (this.isRunning) return;
    /\ isRunning' = TRUE
    /\ consecutiveFailures' = 0
    /\ currentBackoffMs' = 0
    /\ failStreak' = 0
    /\ startCalled' = TRUE
    /\ BeginRefresh("start")
    /\ UNCHANGED <<cfgVars, idVars, tokenVars, builderVars, healthVars, listening, connVars, currentSnapshot, timeoutId, pendingTimers, nextTimerId,
                   retQueue, sequenceCounter, srvSnapshot, executorSnapshot,
                   finished, lastOutcome, lastGood, callbackCount>>

\* stop()
Stop ==
    /\ retQueue = <<>>
    /\ isRunning \/ timeoutId # 0 \/ startCalled
    /\ isRunning' = FALSE
    /\ pendingTimers' = {t \in pendingTimers : t.id # timeoutId}   \* clearTimeout
    /\ timeoutId' = 0
    /\ startCalled' = FALSE
    /\ UNCHANGED <<cfgVars, idVars, tokenVars, builderVars, healthVars, listening, connVars, currentSnapshot, consecutiveFailures, currentBackoffMs,
                   nextTimerId, inflight, retQueue, sequenceCounter, srvSnapshot,
                   executorSnapshot, attempts, finished, lastOutcome, lastGood,
                   failStreak, callbackCount>>

\* (mutant of buildSnapshot: the sequence counter is not advanced)
buildSnapshot_SameSequence(out) ==
    [users |-> out.users, groups |-> out.groups, sequence |-> 1]

\* SnapshotBuilder.buildSnapshot after the fetches resolved
buildSnapshot(out) ==
    [users |-> out.users, groups |-> out.groups, sequence |-> sequenceCounter + 1]

\* The snapshot-update callback set by LDAPtoIDMain.initializeServices
onSnapshotUpdate(snapshot) ==
    /\ executorSnapshot' = <<snapshot>>
    /\ srvSnapshot' = <<snapshot>>
    /\ callbackCount' = callbackCount + 1

\* performRefresh, try branch: buildSnapshot returned a snapshot
RefreshSucceeds(kind, out) ==
    LET snapshot == buildSnapshot(out) IN
    /\ sequenceCounter' = sequenceCounter + 1
    /\ consecutiveFailures' = 0
    /\ currentBackoffMs' = 0
    /\ currentSnapshot' = <<snapshot>>
    /\ onSnapshotUpdate(snapshot)
    /\ lastGood' = <<snapshot>>
    /\ lastOutcome' = "ok"
    /\ failStreak' = 0

\* (mutant of nextBackoff: the cap of the later failures is forgotten)
nextBackoff_NoCap(failures) ==
    IF failures = 1
    THEN Min(refreshIntervalMs, maxBackoffMs)
    ELSE currentBackoffMs * backoffMultiplier

\* performRefresh, catch branch: "Calculate backoff delay", with `failures` the
\* incremented consecutiveFailures
nextBackoff(failures) ==
    IF failures = 1
    THEN Min(refreshIntervalMs, maxBackoffMs)
    ELSE Min(currentBackoffMs * backoffMultiplier, maxBackoffMs)

\* (mutant of RefreshFails: the failure drops the snapshot it could not replace)
RefreshFails_DropsSnapshot(kind) ==
    /\ consecutiveFailures' = consecutiveFailures + 1
    /\ currentBackoffMs' = nextBackoff(consecutiveFailures + 1)
    /\ lastOutcome' = "fail"
    /\ failStreak' = failStreak + 1
    /\ currentSnapshot' = Undefined
    /\ UNCHANGED <<srvSnapshot, executorSnapshot, sequenceCounter,
                   lastGood, callbackCount>>

\* performRefresh, catch branch: buildSnapshot threw
RefreshFails(kind) ==
    /\ consecutiveFailures' = consecutiveFailures + 1
    /\ currentBackoffMs' = nextBackoff(consecutiveFailures + 1)
    /\ lastOutcome' = "fail"
    /\ failStreak' = failStreak + 1
    /\ UNCHANGED <<currentSnapshot, srvSnapshot, executorSnapshot, sequenceCounter,
                   lastGood, callbackCount>>

BuildSucceeds ==
    \E kind \in Kinds, out \in AdaptorOutputs :
        /\ inflight[kind] > 0
        /\ RefreshSucceeds(kind, out)
        /\ ReturnTo(kind)
        /\ UNCHANGED <<cfgVars, idVars, tokenVars, builderVars, healthVars, callVars, listening, connVars, isRunning, timeoutId, pendingTimers, nextTimerId, attempts>>

BuildFails ==
    \E kind \in Kinds :
        /\ inflight[kind] > 0
        /\ RefreshFails(kind)
        /\ ReturnTo(kind)
        /\ UNCHANGED <<cfgVars, idVars, tokenVars, builderVars, healthVars, callVars, listening, connVars, isRunning, timeoutId, pendingTimers, nextTimerId, attempts>>

\* (mutant of scheduleNextHalts: off by one)
scheduleNextHalts_OffByOne == consecutiveFailures > MaxRetries

\* scheduleNext(): `if (this.consecutiveFailures >= this.maxRetries)`
scheduleNextHalts == consecutiveFailures >= MaxRetries

scheduleNextDelay ==
    IF consecutiveFailures > 0 THEN currentBackoffMs ELSE refreshIntervalMs

\* The continuation of start() / of the timer callback after performRefresh.
\* When start() returns, LDAPtoIDMain.start goes on to ldapServer.start().
ScheduleNext ==
    /\ retQueue # <<>>
    /\ retQueue' = Tail(retQueue)
    /\ IF ~isRunning
       THEN UNCHANGED <<isRunning, timeoutId, pendingTimers, nextTimerId>>
       ELSE IF scheduleNextHalts
       THEN /\ isRunning' = FALSE
            /\ UNCHANGED <<timeoutId, pendingTimers, nextTimerId>>
       ELSE /\ pendingTimers' = pendingTimers \cup
                                  {[id |-> nextTimerId, delay |-> scheduleNextDelay]}
            /\ timeoutId' = nextTimerId
            /\ nextTimerId' = nextTimerId + 1
            /\ UNCHANGED isRunning
    /\ listening' = (listening \/ Head(retQueue) = "start")
    /\ UNCHANGED <<cfgVars, idVars, tokenVars, builderVars, healthVars, callVars, connVars, currentSnapshot, consecutiveFailures,
                   currentBackoffMs, inflight, sequenceCounter, srvSnapshot, executorSnapshot, attempts,
                   finished, lastOutcome, lastGood, failStreak, callbackCount>>

\* Whether the timer callback goes on to performRefresh
timerCallbackRuns == isRunning

\* A timer set by scheduleNext fires
TimerFire ==
    \E t \in pendingTimers :
        /\ retQueue = <<>>
        /\ pendingTimers' = pendingTimers \ {t}
        /\ IF timerCallbackRuns
           THEN BeginRefresh("timer")
           ELSE UNCHANGED <<inflight, attempts>>
        /\ UNCHANGED <<cfgVars, idVars, tokenVars, builderVars, healthVars, callVars, listening, connVars, currentSnapshot, isRunning, timeoutId,
                       consecutiveFailures, currentBackoffMs, nextTimerId, retQueue,
                       sequenceCounter, srvSnapshot, executorSnapshot, finished,
                       lastOutcome, lastGood, failStreak, callbackCount>>

\* forceRefresh()
ForceRefresh ==
    /\ retQueue = <<>>
    /\ BeginRefresh("force")
    /\ UNCHANGED <<cfgVars, idVars, tokenVars, builderVars, healthVars, callVars, listening, connVars, currentSnapshot, isRunning, timeoutId, consecutiveFailures,
                   currentBackoffMs, pendingTimers, nextTimerId, retQueue,
                   sequenceCounter, srvSnapshot, executorSnapshot, finished,
                   lastOutcome, lastGood, failStreak, callbackCount>>

\* ------------------------------------------------------------------------
\* LDAP entries and search (LDAPServer.executeSearch and helpers)
\* ------------------------------------------------------------------------

\* A DN is the sequence of its RDNs, leftmost first; baseDN is the suffix.
baseDN == <<"dc=example">>

userDNBase == <<"ou=users">> \o baseDN

groupDNBase == <<"ou=groups">> \o baseDN

IsSuffixOf(a, b) ==
    /\ Len(a) <= Len(b)
    /\ SubSeq(b, Len(b) - Len(a) + 1, Len(b)) = a

\* isBaseObjectInScope(baseObject)
isBaseObjectInScope(baseObject) ==
    \/ baseObject = <<>>
    \/ IsSuffixOf(baseDN, baseObject)

\* isInSearchScope(entryDN, baseObject, scope)
isInSearchScope(entryDN, baseObject, scope) ==
    CASE scope = 0 -> entryDN = baseObject
      [] scope = 1 -> entryDN # baseObject /\ entryDN # <<>> /\ Tail(entryDN) = baseObject
      [] scope = 2 -> entryDN = baseObject
                      \/ (baseObject # <<>> /\ Len(entryDN) > Len(baseObject)
                            /\ IsSuffixOf(baseObject, entryDN))
      [] OTHER -> FALSE

Entry(kind, dn) ==
    [type |-> "SearchResultEntry", kind |-> kind, dn |-> dn, resultCode |-> Success]

SearchResultDone(code) ==
    [type |-> "SearchResultDone", kind |-> "", dn |-> <<>>, resultCode |-> code]

BindResponse(code) ==
    [type |-> "BindResponse", kind |-> "", dn |-> <<>>, resultCode |-> code]

\* matchesFilter for the filters sent here: (objectClass=*) matches every entry
matchesFilter(filter, entry) == filter = "(objectClass=*)"

\* createOUEntries(context, request)
createOUEntries(request) ==
    LET ous == << Entry("ou", userDNBase), Entry("ou", groupDNBase) >>
        Keep(e) == /\ isInSearchScope(e.dn, request.baseObject, request.scope)
                   /\ matchesFilter(request.filter, e)
    IN  SelectSeq(ous, Keep)

\* executeSearch(context): users, then groups, then the organizational units
executeSearch(snapshot, request) ==
    LET UserEntry(u) == Entry("user", <<"uid=" \o u>> \o userDNBase)
        GroupEntry(g) == Entry("group", <<"cn=" \o g>> \o groupDNBase)
        Keep(e) == /\ isInSearchScope(e.dn, request.baseObject, request.scope)
                   /\ matchesFilter(request.filter, e)
        userEntries == [i \in 1..Len(snapshot.users) |-> UserEntry(snapshot.users[i])]
        groupEntries == [i \in 1..Len(snapshot.groups) |-> GroupEntry(snapshot.groups[i])]
    IN  IF request.baseObject = <<>> /\ request.scope = 0
        THEN SelectSeq(<<Entry("rootDSE", <<>>)>>, LAMBDA e : matchesFilter(request.filter, e))
        ELSE SelectSeq(userEntries, Keep)
             \o SelectSeq(groupEntries, Keep)
             \o (IF request.scope # 0 THEN createOUEntries(request) ELSE <<>>)

\* (mutant of applyLimits: the client's limit replaces the server's)
applyLimits_ClientRaises(entries, clientSizeLimit) ==
    LET effectiveLimit ==
            IF clientSizeLimit > 0 THEN clientSizeLimit ELSE ServerSizeLimit
    IN  SubSeq(entries, 1, Min(Len(entries), effectiveLimit))

\* applyLimits(entries, clientSizeLimit)
applyLimits(entries, clientSizeLimit) ==
    LET effectiveLimit ==
            Min(ServerSizeLimit,
                IF clientSizeLimit > 0 THEN clientSizeLimit ELSE ServerSizeLimit)
    IN  SubSeq(entries, 1, Min(Len(entries), effectiveLimit))

\* handleSearch: the resultCode of the final SearchResultDone
searchResultCode(entries) ==
    IF Len(entries) >= ServerSizeLimit THEN SizeLimitExceeded ELSE Success

\* ------------------------------------------------------------------------
\* LDAPServer.handleConnection
\* ------------------------------------------------------------------------

\* JavaScript truthiness of an optional string
Truthy(opt) == opt # Undefined /\ opt # <<"">>

BindRequests ==
    [op : {"bind"}, auth : {"simple"},
     name : {"", "cn=svc", "cn=other"}, password : {"", "s3cret", "wrong"}]
    \cup { [op |-> "bind", auth |-> "sasl", name |-> "cn=svc", password |-> ""] }

SearchRequests ==
    [op : {"search"}, baseObject : {baseDN, <<"dc=other">>}, scope : {1, 2},
     sizeLimit : {0, 1}, filter : {"(objectClass=*)"}]

\* A wider set of Search requests: the suffix, a base outside it, an OU and a
\* user entry as base; every scope; no client size limit, a limit of 1 and a
\* limit above the server's
ScopedSearchRequests ==
    [op : {"search"},
     baseObject : {baseDN, <<"dc=other">>, userDNBase, <<"uid=alice">> \o userDNBase},
     scope : {0, 1, 2},
     sizeLimit : {0, 1, ServerSizeLimit + 2},
     filter : {"(objectClass=*)"}]

\* (mutant of handleBind: an unknown DN is told apart from a wrong password)
handleBind_RevealsUnknownDN(request) ==
    IF allowAnonymousBind \/ (~Truthy(bindDN) /\ ~Truthy(bindPassword))
    THEN Success
    ELSE IF request.auth = "simple"
         THEN IF <<request.name>> # bindDN
              THEN InsufficientAccessRights
              ELSE IF <<request.password>> = bindPassword
                   THEN Success
                   ELSE InvalidCredentials
         ELSE AuthMethodNotSupported

\* handleBind(request): the resultCode of the BindResponse
handleBind(request) ==
    IF allowAnonymousBind \/ (~Truthy(bindDN) /\ ~Truthy(bindPassword))
    THEN Success
    ELSE IF request.auth = "simple"
         THEN IF <<request.name>> = bindDN /\ <<request.password>> = bindPassword
              THEN Success
              ELSE InvalidCredentials
         ELSE AuthMethodNotSupported

\* (mutant of authenticatedAfterBind: a failed Bind keeps an earlier success)
authenticatedAfterBind_Sticky(resultCode) == authenticated \/ resultCode = Success

\* `authenticated = bindResult.resultCode === LDAPResultCode.Success`
authenticatedAfterBind(resultCode) == resultCode = Success

\* (mutant of searchRefused: allowAnonymousBind opens Search as well)
searchRefused_UnlessAnonymous ==
    ~authenticated /\ Truthy(bindDN) /\ ~allowAnonymousBind

\* `if (!authenticated && this.bindDN)`: the Search is refused
searchRefused == ~authenticated /\ Truthy(bindDN)

\* The operations LDAPCodec.decode has a branch for (BindRequest, tag 0, and
\* SearchRequest, tag 3); for any other protocolOp it throws
\* "Unsupported LDAP message type"
DecodableOps == {"bind", "search"}

\* What a complete PDU sent by a client may be: a request of one of the three
\* operations the server names, a well-formed request of another operation
\* ("other", e.g. Compare), or bytes that are no LDAPMessage ("malformed")
FrameOps == {"bind", "search", "unbind", "other", "malformed"}

\* LDAPCodec.tryDecode of a complete PDU: the message, or null (<<>>) when
\* decode throws
tryDecode(op) == IF op \in DecodableOps THEN <<op>> ELSE Undefined

\* The OID of the Simple Paged Results control that sendSearchDone looks for
PagedResultsOID == "1.2.840.113556.1.4.319"

\* LDAPCodec.encodePagedControlValue(size, cookie) as what it encodes: the
\* SEQUENCE { size INTEGER, cookie OCTET STRING }
encodePagedControlValue(size, cookie) == [size |-> size, cookie |-> cookie]

\* The controls a Search message may carry, as LDAPCodec.decode returns them:
\* none (`controls` undefined, which sendSearchDone treats as it treats an
\* empty list), the paged results control asking for pages of 1, another
\* control (ManageDsaIT), and both
WireControls ==
    LET paged == [controlType |-> PagedResultsOID,
                  controlValue |-> encodePagedControlValue(1, <<>>)]
        other == [controlType |-> "2.16.840.1.113730.3.4.2", controlValue |-> <<>>]
    IN  {<<>>, <<paged>>, <<other>>, <<other, paged>>}

\* sendSearchDone, "Handle paged results control": `response.controls` for the
\* `controls` it is given (<<>> when it sets none)
responseControls(given) ==
    IF \E i \in 1..Len(given) : given[i].controlType = PagedResultsOID
    THEN <<[controlType |-> PagedResultsOID, criticality |-> FALSE,
            controlValue |-> encodePagedControlValue(0, <<>>)]>>
    ELSE <<>>

\* The filters a SearchRequest may carry on the wire: (objectClass=*), tag 7,
\* and an extensibleMatch filter, tag 9
WireFilters == {"present", "extensibleMatch"}

\* LDAPCodec.parseFilter and the try/catch around it in decode: the filters
\* the SearchRequest may come out with.  parseFilter has branches for And, Or,
\* Not, EqualityMatch, Substrings and Present.  For any other tag it either
\* returns a Present filter on whatever decodeString makes of the block's
\* bytes (no attribute of any entry has that name), or throws, and decode then
\* puts (objectClass=*) in its place.
parseFilter(wire) ==
    IF wire = "present"
    THEN {"(objectClass=*)"}
    ELSE {"(objectClass=*)", "(?=*)"}

\* No Search message is at hand: no controls, no filter
NoWire ==
    /\ controls' = <<>>
    /\ doneControls' = <<>>
    /\ wireFilter' = "none"

\* A connection is accepted: handleConnection starts.  The server listens
\* once LDAPtoIDMain.start has awaited refreshScheduler.start().
Connect ==
    /\ listening
    /\ ~connOpen
    /\ connOpen' = TRUE
    /\ authenticated' = FALSE
    /\ lastReq' = [op |-> "none"]
    /\ resp' = <<>>
    /\ searchPc' = "none"
    /\ toWrite' = <<>>
    /\ doneCode' = Success
    /\ inbuf' = <<>>
    /\ stalledOn' = "none"
    /\ reqId' = 0
    /\ respIds' = <<>>
    /\ everBound' = FALSE
    /\ everSentBind' = FALSE
    /\ dispatched' = FALSE
    /\ reqSnapshot' = Undefined
    /\ sent' = 0
    /\ NoWire
    /\ UNCHANGED <<cfgVars, idVars, tokenVars, builderVars, healthVars, callVars, listening, schedVars, reqTick>>

\* The client sends one more request; conn.read appends it to `buffer`,
\* behind the requests that wait there.  Its messageID is its number on the
\* connection.  What the request is, is drawn when the handler decodes it:
\* nothing looks at it before.
ClientSends ==
    /\ connOpen
    /\ sent < MaxRequests
    /\ Len(inbuf) < MaxPipelined
    /\ inbuf' = Append(inbuf, sent + 1)
    /\ sent' = sent + 1
    /\ UNCHANGED <<cfgVars, idVars, tokenVars, builderVars, healthVars, callVars, listening, schedVars, connOpen, authenticated, lastReq, resp,
                   searchPc, toWrite, doneCode, stalledOn, reqId, respIds, reqTick,
                   everBound, everSentBind, dispatched, reqSnapshot, wireVars>>

\* (mutant of AtDecode: handleSearch is not awaited before the next decode)
AtDecode_SearchNotAwaited == connOpen /\ inbuf # <<>> /\ stalledOn = "none"

\* The handler is at tryDecode with a complete PDU at the head of the buffer:
\* the write of the previous response and `await this.handleSearch` are over
AtDecode == connOpen /\ searchPc = "none" /\ inbuf # <<>> /\ stalledOn = "none"

\* `const { message, consumed } = decoded`: the messageID of the first message
\* of the buffer
nextMessage == Head(inbuf)

\* `buffer = buffer.slice(consumed)`
Consume ==
    /\ inbuf' = Tail(inbuf)
    /\ reqId' = nextMessage

\* tryDecode returns null for the PDU at the head of the buffer: the inner
\* loop ends and the handler awaits conn.read again.  The buffer is not
\* advanced, so every later tryDecode meets the same PDU.
DecodeFails ==
    \E op \in FrameOps :
        /\ AtDecode
        /\ tryDecode(op) = Undefined
        /\ stalledOn' = op
        /\ UNCHANGED <<cfgVars, idVars, tokenVars, builderVars, healthVars, callVars, listening, schedVars, connOpen, authenticated, lastReq, resp,
                       searchPc, toWrite, doneCode, inbuf, reqId, respIds, reqTick,
                       everBound, everSentBind, dispatched, reqSnapshot, sent, wireVars>>

\* conn.read returns null (the client closed its side): `finally` closes
ClientCloses ==
    /\ connOpen
    /\ searchPc = "none"
    /\ inbuf = <<>> \/ stalledOn # "none"
    /\ connOpen' = FALSE
    /\ UNCHANGED <<cfgVars, idVars, tokenVars, builderVars, healthVars, callVars, listening, schedVars, authenticated, lastReq, resp,
                   searchPc, toWrite, doneCode, inbuf, stalledOn, reqId, respIds, reqTick,
                   everBound, everSentBind, dispatched, reqSnapshot, sent, wireVars>>

\* case LDAPMessageType.BindRequest
ReceiveBind ==
    \E request \in BindRequests :
        LET resultCode == handleBind(request) IN
        /\ AtDecode
        /\ tryDecode("bind") # Undefined
        /\ Consume
        /\ lastReq' = request
        /\ reqTick' = ~reqTick
        /\ authenticated' = authenticatedAfterBind(resultCode)
        /\ resp' = <<BindResponse(resultCode)>>
        /\ respIds' = <<nextMessage>>
        /\ everBound' = (everBound \/ resultCode = Success)
        /\ everSentBind' = TRUE
        /\ dispatched' = FALSE
        /\ NoWire
        /\ UNCHANGED <<cfgVars, idVars, tokenVars, builderVars, healthVars, callVars, listening, schedVars, connOpen, searchPc, toWrite, doneCode,
                       stalledOn, reqSnapshot, sent>>

\* (mutant of noSnapshotResponse: the handler returns without a Done)
noSnapshotResponse_Silent == <<>>

\* (mutant of noSnapshotResponse: the missing snapshot is reported as an
\* internal error)
noSnapshotResponse_OperationsError == <<SearchResultDone(OperationsError)>>

\* handleSearch, `if (!this.currentSnapshot)`: what is written
noSnapshotResponse == <<SearchResultDone(Unavailable)>>

\* handleSearch up to its first await.  `threw` is whether the search throws
\* inside the try block before anything is written (the catch then sends
\* OperationsError).
handleSearch(messageID, request) ==
    IF srvSnapshot = Undefined
    THEN /\ resp' = noSnapshotResponse
         /\ respIds' = [i \in 1..Len(noSnapshotResponse) |-> messageID]
         /\ doneControls' = <<>>
         /\ UNCHANGED <<searchPc, toWrite, doneCode>>
    ELSE \E threw \in BOOLEAN :
         IF threw
         THEN /\ resp' = <<SearchResultDone(OperationsError)>>
              /\ respIds' = <<messageID>>
              /\ doneControls' = responseControls(<<>>)
              /\ UNCHANGED <<searchPc, toWrite, doneCode>>
         ELSE IF ~isBaseObjectInScope(request.baseObject)
         THEN /\ resp' = <<SearchResultDone(Success)>>
              /\ respIds' = <<messageID>>
              /\ doneControls' = responseControls(<<>>)
              /\ UNCHANGED <<searchPc, toWrite, doneCode>>
         ELSE LET entries == executeSearch(srvSnapshot[1], request) IN
              /\ resp' = <<>>
              /\ respIds' = <<>>
              /\ doneControls' = <<>>
              /\ toWrite' = applyLimits(entries, request.sizeLimit)
              /\ doneCode' = searchResultCode(entries)
              /\ searchPc' = "writing"

\* case LDAPMessageType.SearchRequest
SearchRequestCase(request, messageControls, wire) ==
    /\ AtDecode
    /\ tryDecode("search") # Undefined
    /\ Consume
    /\ lastReq' = request
    /\ controls' = messageControls
    /\ wireFilter' = wire
    /\ reqTick' = ~reqTick
    /\ IF searchRefused
       THEN /\ resp' = <<SearchResultDone(InsufficientAccessRights)>>
            /\ respIds' = <<nextMessage>>
            /\ doneControls' = <<>>
            /\ dispatched' = FALSE
            /\ UNCHANGED <<searchPc, toWrite, doneCode, reqSnapshot>>
       ELSE /\ dispatched' = TRUE
            /\ reqSnapshot' = srvSnapshot
            /\ handleSearch(nextMessage, request)
    /\ UNCHANGED <<cfgVars, idVars, tokenVars, builderVars, healthVars, callVars, listening, schedVars, connOpen, authenticated, stalledOn,
                   everBound, everSentBind, sent>>

\* A SearchRequest is decoded
ReceiveSearch ==
    \E request \in SearchRequests : SearchRequestCase(request, <<>>, "present")

\* A SearchRequest of the wider set is decoded
ReceiveScopedSearch ==
    \E request \in ScopedSearchRequests : SearchRequestCase(request, <<>>, "present")

\* A SearchRequest is decoded whose message may carry controls and whose
\* filter may be of a kind parseFilter has no branch for
ReceiveWireSearch ==
    \E request \in SearchRequests, messageControls \in WireControls, wire \in WireFilters :
        \E filter \in parseFilter(wire) :
            SearchRequestCase([request EXCEPT !.filter = filter], messageControls, wire)

\* (mutant of nextEntry: the entry is looked up again in the server's
\* snapshot of the moment it is written)
nextEntry_FromCurrentSnapshot ==
    LET current == applyLimits(executeSearch(srvSnapshot[1], lastReq), lastReq.sizeLimit)
        i == Len(resp) + 1
    IN  IF i <= Len(current) THEN current[i] ELSE Head(toWrite)

\* The entry sendSearchResults writes next: `for (const entry of entries)`
nextEntry == Head(toWrite)

\* sendSearchResults: one `await conn.write` of an entry
WriteEntry ==
    /\ connOpen
    /\ searchPc = "writing"
    /\ toWrite # <<>>
    /\ resp' = Append(resp, nextEntry)
    /\ respIds' = Append(respIds, reqId)
    /\ toWrite' = Tail(toWrite)
    /\ UNCHANGED <<cfgVars, idVars, tokenVars, builderVars, healthVars, callVars, listening, schedVars, connOpen, authenticated, lastReq, searchPc,
                   doneCode, inbuf, stalledOn, reqId, reqTick, everBound, everSentBind,
                   dispatched, reqSnapshot, sent, wireVars>>

\* sendSearchDone after the entries
WriteDone ==
    /\ connOpen
    /\ searchPc = "writing"
    /\ toWrite = <<>>
    /\ resp' = Append(resp, SearchResultDone(doneCode))
    /\ respIds' = Append(respIds, reqId)
    /\ doneControls' = responseControls(controls)
    /\ searchPc' = "none"
    /\ UNCHANGED <<cfgVars, idVars, tokenVars, builderVars, healthVars, callVars, listening, schedVars, connOpen, authenticated, lastReq, toWrite,
                   doneCode, inbuf, stalledOn, reqId, reqTick, everBound, everSentBind,
                   dispatched, reqSnapshot, sent, controls, wireFilter>>

\* case LDAPMessageType.UnbindRequest: return, and `finally` closes.  The case
\* needs a decoded UnbindRequest, which tryDecode never returns.
ReceiveUnbind ==
    /\ AtDecode
    /\ tryDecode("unbind") # Undefined
    /\ Consume
    /\ lastReq' = [op |-> "unbind"]
    /\ reqTick' = ~reqTick
    /\ resp' = <<>>
    /\ respIds' = <<>>
    /\ connOpen' = FALSE
    /\ dispatched' = FALSE
    /\ NoWire
    /\ UNCHANGED <<cfgVars, idVars, tokenVars, builderVars, healthVars, callVars, listening, schedVars, authenticated, searchPc, toWrite, doneCode,
                   stalledOn, everBound, everSentBind, reqSnapshot, sent>>

\* default: any other operation.  The case needs a decoded message of another
\* operation, which tryDecode never returns.
ReceiveOther ==
    /\ AtDecode
    /\ tryDecode("other") # Undefined
    /\ Consume
    /\ lastReq' = [op |-> "other"]
    /\ reqTick' = ~reqTick
    /\ resp' = <<SearchResultDone(ProtocolError)>>
    /\ respIds' = <<nextMessage>>
    /\ dispatched' = FALSE
    /\ NoWire
    /\ UNCHANGED <<cfgVars, idVars, tokenVars, builderVars, healthVars, callVars, listening, schedVars, connOpen, authenticated, searchPc, toWrite,
                   doneCode, stalledOn, everBound, everSentBind, reqSnapshot, sent>>

\* ------------------------------------------------------------------------
\* IdAllocator
\* ------------------------------------------------------------------------

\* An allocator as its constructor leaves it: `sequentialStart ?? floor + 1`
NewAllocator ==
    [byKey |-> [k \in {} |-> 0], byId |-> [i \in {} |-> <<>>], nextSeq |-> floor + 1]

\* The behaviours of hashToInt that are explored, named by the salt that
\* gives them
Salts == {"spread", "clash", "low"}

\* Position of a key among the keys used here; keys are <<prefix, id>> for the
\* string `${prefix}:${id}`
KeyIndex(key) ==
    LET prefixes == <<"user", "group", "synthetic">>
        names == <<"alice", "bob", "carol", "devs", "ops">>
    IN  10 * (CHOOSE i \in 1..Len(prefixes) : prefixes[i] = key[1])
        + (CHOOSE i \in 1..Len(names) : names[i] = key[2])

\* hashToInt of `${salt}:${attempt}:${key}`: a fixed function of its input
\* into the 31-bit integers.  FNV-1a itself is not computed; three functions
\* stand for it: one without collisions above the floor ("spread"), one where
\* all keys hash alike at each attempt ("clash"), and one where all keys hash
\* alike at attempt 0 and at or below the floor afterwards ("low").
hashToInt(input) ==
    CASE input[1] = "spread" -> floor + 100 * KeyIndex(input[3]) + input[2]
      [] input[1] = "clash" -> floor + 1 + input[2]
      [] OTHER -> IF input[2] = 0 THEN floor + 2 ELSE 7

\* (mutant of tooSmall: the hash path takes ids at or below the floor)
tooSmall_Never(hashId) == FALSE

\* `if (hashId <= this.floor)`: avoid reserved and too-small ids
tooSmall(hashId) == hashId <= floor

\* commit(key, id)
commit(alloc, key, id) ==
    [alloc EXCEPT !.byKey = [k \in DOMAIN alloc.byKey \cup {key} |->
                                IF k = key THEN id ELSE alloc.byKey[k]],
                  !.byId = [i \in DOMAIN alloc.byId \cup {id} |->
                                IF i = id THEN key ELSE alloc.byId[i]]]

\* nextSequential: the first candidate from nextSeq on that byId does not
\* hold, and the allocator with nextSeq past it (main sets no ceiling)
nextSequential(alloc) ==
    LET taken == DOMAIN alloc.byId
        candidate == CHOOSE c \in alloc.nextSeq..(alloc.nextSeq + Cardinality(taken)) :
                         /\ c \notin taken
                         /\ \A d \in alloc.nextSeq..(c - 1) : d \in taken
    IN  [state |-> [alloc EXCEPT !.nextSeq = candidate + 1], id |-> candidate]

\* (mutant of existing: the in-memory map is not consulted)
existing_Forgotten(alloc, key) == Undefined

\* `this.state.byKey.get(key)`: <<id>>, or <<>> for undefined
existing(alloc, key) ==
    IF key \in DOMAIN alloc.byKey THEN <<alloc.byKey[key]>> ELSE Undefined

\* The hash path of allocate ends at this attempt: the id is above the floor
\* and free, or already this key's
hashAttemptEnds(alloc, key, attempt) ==
    LET hashId == hashToInt(<<salt, attempt, key>>) IN
    /\ ~tooSmall(hashId)
    /\ hashId \notin DOMAIN alloc.byId \/ alloc.byId[hashId] = key

\* allocate(key): the allocator afterwards and the AllocationResult
allocate(alloc, key) ==
    IF existing(alloc, key) # Undefined
    THEN LET id == existing(alloc, key)[1] IN
         [state |-> alloc,
          result |-> [id |-> id, hashed |-> alloc.byId[id] = key, collisionCount |-> 0]]
    ELSE IF \E attempt \in 0..retryLimit : hashAttemptEnds(alloc, key, attempt)
    THEN LET attempt == CHOOSE a \in 0..retryLimit :
                            /\ hashAttemptEnds(alloc, key, a)
                            /\ \A b \in 0..(a - 1) : ~hashAttemptEnds(alloc, key, b)
             hashId == hashToInt(<<salt, attempt, key>>)
         IN  [state |-> IF hashId \in DOMAIN alloc.byId THEN alloc
                        ELSE commit(alloc, key, hashId),
              result |-> [id |-> hashId, hashed |-> TRUE, collisionCount |-> attempt]]
    ELSE LET seq == nextSequential(alloc) IN
         [state |-> commit(seq.state, key, seq.id),
          result |-> [id |-> seq.id, hashed |-> FALSE, collisionCount |-> retryLimit + 1]]

\* (mutant of importEntry: an imported pair replaces the key's mapping)
importEntry_Overwrites(alloc, entry) ==
    IF entry.id \in DOMAIN alloc.byId
    THEN alloc
    ELSE [commit(alloc, entry.key, entry.id) EXCEPT
             !.nextSeq = IF entry.id >= alloc.nextSeq THEN entry.id + 1 ELSE alloc.nextSeq]

\* One round of the loop of importMapping
importEntry(alloc, entry) ==
    IF entry.key \in DOMAIN alloc.byKey
    THEN alloc
    ELSE IF entry.id \in DOMAIN alloc.byId
    THEN alloc
    ELSE [commit(alloc, entry.key, entry.id) EXCEPT
             !.nextSeq = IF entry.id >= alloc.nextSeq THEN entry.id + 1 ELSE alloc.nextSeq]

RECURSIVE importMapping(_, _)
\* importMapping(entries)
importMapping(alloc, entries) ==
    IF entries = <<>>
    THEN alloc
    ELSE importMapping(importEntry(alloc, Head(entries)), Tail(entries))

\* The keys handed to one allocator directly
AllocatorKeys == {<<"user", "alice">>, <<"user", "bob">>, <<"user", "carol">>}

\* The lists handed to importMapping: up to MaxImported pairs of a key and an
\* id at or below the floor, just above it, or further up
ImportEntries == [key : AllocatorKeys, id : {7, floor + 1, floor + 3}]

ImportLists ==
    UNION { [1..n -> ImportEntries] : n \in 0..MaxImported }

\* One call of allocate on an allocator
Allocate ==
    \E key \in AllocatorKeys :
        LET call == allocate(uidAllocator, key) IN
        /\ uidAllocator' = call.state
        /\ lastAllocation' = <<[key |-> key, result |-> call.result,
                                again |-> key \in DOMAIN firstReturned]>>
        /\ firstReturned' = IF key \in DOMAIN firstReturned
                            THEN firstReturned
                            ELSE [k \in DOMAIN firstReturned \cup {key} |->
                                     IF k = key THEN call.result.id ELSE firstReturned[k]]
        /\ UNCHANGED <<cfgVars, schedVars, connVars, listening, tokenVars, builderVars, healthVars, callVars,
                       salt, redisEnabled, syntheticPrimaryGroup, gidAllocator,
                       mappingStore, builtSnapshot, maxImported, everAssigned, restarts>>

\* One call of importMapping on an allocator
ImportMapping ==
    \E entries \in ImportLists :
        LET after == importMapping(uidAllocator, entries)
            imported == DOMAIN after.byId \ DOMAIN uidAllocator.byId
        IN
        /\ uidAllocator' = after
        /\ lastAllocation' = Undefined
        /\ maxImported' = IF imported = {} THEN maxImported
                          ELSE LET top == CHOOSE i \in imported : \A j \in imported : j <= i
                               IN  IF top > maxImported THEN top ELSE maxImported
        /\ UNCHANGED <<cfgVars, schedVars, connVars, listening, tokenVars, builderVars, healthVars, callVars,
                       salt, redisEnabled, syntheticPrimaryGroup, gidAllocator,
                       mappingStore, builtSnapshot, firstReturned, everAssigned, restarts>>

\* ------------------------------------------------------------------------
\* SnapshotBuilder.buildSnapshot: the ids of a snapshot
\* ------------------------------------------------------------------------

\* What the adaptor may return to one build: users (some disabled) and groups,
\* in the order the IdP lists them
IdpOutputs ==
    LET user(id, enabled) == [id |-> id, enabled |-> enabled]
    IN  { [users |-> <<user("alice", TRUE), user("bob", TRUE)>>, groups |-> <<"devs">>],
          [users |-> <<user("bob", TRUE), user("alice", TRUE)>>, groups |-> <<"devs">>],
          [users |-> <<user("carol", TRUE), user("bob", FALSE), user("alice", TRUE)>>,
           groups |-> <<"ops", "devs">>],
          [users |-> <<user("bob", TRUE)>>, groups |-> <<>>] }

RECURSIVE allocateAll(_, _)
\* `keys.map(key => allocator.allocate(key).id)`: the allocator afterwards
\* and the ids, in order
allocateAll(alloc, keys) ==
    IF keys = <<>>
    THEN [state |-> alloc, ids |-> <<>>]
    ELSE LET call == allocate(alloc, Head(keys))
             rest == allocateAll(call.state, Tail(keys))
         IN  [state |-> rest.state, ids |-> <<call.result.id>> \o rest.ids]

\* buildSnapshot from the adaptor's output on: the users that are enabled get
\* their posixUid, then the groups their posixGid, then (with the feature
\* synthetic_primary_group) one synthetic group per user its posixGid
buildSnapshotIds(out) ==
    LET enabledUsers == SelectSeq(out.users, LAMBDA u : u.enabled)
        userKeys == [i \in 1..Len(enabledUsers) |-> <<"user", enabledUsers[i].id>>]
        groupKeys == [i \in 1..Len(out.groups) |-> <<"group", out.groups[i]>>]
        syntheticKeys == IF syntheticPrimaryGroup
                         THEN [i \in 1..Len(enabledUsers) |-> <<"synthetic", enabledUsers[i].id>>]
                         ELSE <<>>
        uids == allocateAll(uidAllocator, userKeys)
        gids == allocateAll(gidAllocator, groupKeys \o syntheticKeys)
    IN  [uidAllocator |-> uids.state,
         gidAllocator |-> gids.state,
         snapshot |->
            [users |-> [i \in 1..Len(userKeys) |->
                           [key |-> userKeys[i], posixUid |-> uids.ids[i]]],
             groups |-> [i \in 1..Len(gids.ids) |->
                           [key |-> (groupKeys \o syntheticKeys)[i], posixGid |-> gids.ids[i],
                            isSynthetic |-> i > Len(groupKeys)]]]]

\* The first id each key was given, with the pairs of `mapping` added for the
\* keys that had none
withFirstIds(known, mapping) ==
    [k \in DOMAIN known \cup DOMAIN mapping |->
        IF k \in DOMAIN known THEN known[k] ELSE mapping[k]]

\* One build, from the adaptor's answer to the finished snapshot.  Nothing in
\* the build or in the allocators calls RedisClient.storeMapping.
BuildIds ==
    \E out \in IdpOutputs :
        LET built == buildSnapshotIds(out) IN
        /\ uidAllocator' = built.uidAllocator
        /\ gidAllocator' = built.gidAllocator
        /\ builtSnapshot' = <<built.snapshot>>
        /\ everAssigned' = [uid |-> withFirstIds(everAssigned.uid, built.uidAllocator.byKey),
                            gid |-> withFirstIds(everAssigned.gid, built.gidAllocator.byKey)]
        /\ UNCHANGED <<cfgVars, schedVars, connVars, listening, tokenVars, builderVars, healthVars, callVars,
                       salt, redisEnabled, syntheticPrimaryGroup, mappingStore,
                       lastAllocation, firstReturned, maxImported, restarts>>

\* The process is started again: initializeServices constructs both
\* allocators anew, connects the Redis client when it is enabled, and calls
\* neither getAllMappings nor importMapping
Restart ==
    /\ restarts < MaxRestarts
    /\ builtSnapshot # Undefined
    /\ restarts' = restarts + 1
    /\ uidAllocator' = NewAllocator
    /\ gidAllocator' = NewAllocator
    /\ builtSnapshot' = Undefined
    /\ UNCHANGED <<cfgVars, schedVars, connVars, listening, tokenVars, builderVars, healthVars, callVars,
                   salt, redisEnabled, syntheticPrimaryGroup, mappingStore,
                   lastAllocation, firstReturned, maxImported, everAssigned>>

\* ------------------------------------------------------------------------
\* SnapshotBuilder.buildSnapshot: users, groups and memberships
\* ------------------------------------------------------------------------

\* The user ids a raw group may list as its members; the last ones are ids
\* of no user the IdP lists
MemberPool == SubSeq(<<"alice", "bob", "carol", "dave", "erin">>, 1, MaxGroupMembers + 1)

\* `members` of a RawGroup: up to MaxGroupMembers + 1 ids of the pool, in any
\* order, none twice (<<>> also stands for a group without `members`)
MemberLists ==
    UNION { { m \in [1..n -> {MemberPool[i] : i \in DOMAIN MemberPool}] :
                \A i, j \in 1..n : i # j => m[i] # m[j] } :
            n \in 0..(MaxGroupMembers + 1) }

\* What the adaptor may return to one build: RawUser[] and RawGroup[], in the
\* order the IdP lists them
RawOutputs ==
    LET user(id, enabled) == [id |-> id, username |-> id, enabled |-> enabled]
        group(id, members) == [id |-> id, members |-> members]
        userLists == { <<user("bob", TRUE), user("alice", TRUE)>>,
                       <<user("alice", TRUE), user("bob", FALSE), user("carol", TRUE)>> }
    IN  { [users |-> us, groups |-> <<group("devs", m)>>] :
              us \in userLists, m \in MemberLists }
        \cup { [users |-> us, groups |-> <<>>] : us \in userLists }
        \cup { [users |-> us,
                groups |-> <<group("ops", <<"alice">>), group("devs", <<"alice", "bob">>)>>] :
               us \in userLists }

\* getSyntheticPrimaryGroupId(userId)
getSyntheticPrimaryGroupId(userId) ==
    IF syntheticPrimaryGroup THEN "synthetic:" \o userId ELSE "users"

\* (mutant of truncated: a group that just fits is flagged too)
truncated_AtLimit(memberUserIds) == Len(memberUserIds) >= MaxGroupMembers

\* processGroups: `memberUserIds.length > this.maxGroupMembers`
truncated(memberUserIds) == Len(memberUserIds) > MaxGroupMembers

\* processGroups: `truncated ? memberUserIds.slice(0, maxGroupMembers) : memberUserIds`
finalMemberIds(memberUserIds) ==
    IF truncated(memberUserIds)
    THEN SubSeq(memberUserIds, 1, MaxGroupMembers)
    ELSE memberUserIds

\* processGroups(rawGroups, users), with the posixGid each group was given:
\* the groups, and the users with the ids of the groups pushed to their
\* memberGroupIds, group after group
processGroups(rawGroups, users, gids) ==
    LET holds(group, userId) ==
            \E i \in 1..Len(finalMemberIds(group.members)) :
                finalMemberIds(group.members)[i] = userId
        groupsOf(userId) == SelectSeq(rawGroups, LAMBDA g : holds(g, userId))
    IN  [groups |-> [i \in 1..Len(rawGroups) |->
                        [key |-> <<"group", rawGroups[i].id>>,
                         id |-> rawGroups[i].id,
                         memberUserIds |-> finalMemberIds(rawGroups[i].members),
                         posixGid |-> gids[i],
                         isSynthetic |-> FALSE,
                         truncated |-> truncated(rawGroups[i].members)]],
         users |-> [j \in 1..Len(users) |->
                       [users[j] EXCEPT !.memberGroupIds =
                           [i \in 1..Len(groupsOf(users[j].id)) |->
                               groupsOf(users[j].id)[i].id]]]]

\* createSyntheticPrimaryGroups(users), with the posixGid each was given
createSyntheticPrimaryGroups(users, gids) ==
    [j \in 1..Len(users) |->
        [key |-> <<"synthetic", users[j].id>>,
         id |-> "synthetic:" \o users[j].id,
         memberUserIds |-> <<users[j].id>>,
         posixGid |-> gids[j],
         isSynthetic |-> TRUE,
         truncated |-> FALSE]]

\* buildSnapshot once the ids are allocated (`ids`, as buildSnapshotIds gives
\* them): the users that are enabled, in the adaptor's order, then
\* processGroups, then the synthetic groups when the feature is enabled
snapshotWithIds(out, ids) ==
    LET enabledUsers == SelectSeq(out.users, LAMBDA u : u.enabled)
        users == [j \in 1..Len(enabledUsers) |->
                     [key |-> <<"user", enabledUsers[j].id>>,
                      id |-> enabledUsers[j].id,
                      username |-> enabledUsers[j].username,
                      posixUid |-> ids.snapshot.users[j].posixUid,
                      primaryGroupId |-> getSyntheticPrimaryGroupId(enabledUsers[j].id),
                      memberGroupIds |-> <<>>]]
        gids == [i \in 1..Len(ids.snapshot.groups) |-> ids.snapshot.groups[i].posixGid]
        processed == processGroups(out.groups, users, SubSeq(gids, 1, Len(out.groups)))
        syntheticGroups ==
            IF syntheticPrimaryGroup
            THEN createSyntheticPrimaryGroups(processed.users,
                                              SubSeq(gids, Len(out.groups) + 1, Len(gids)))
            ELSE <<>>
    IN  [uidAllocator |-> ids.uidAllocator,
         gidAllocator |-> ids.gidAllocator,
         snapshot |-> [users |-> processed.users,
                       groups |-> processed.groups \o syntheticGroups]]

\* buildSnapshot from the adaptor's output on: the allocators afterwards and
\* the snapshot.  The ids are allocated once, in the order buildSnapshotIds
\* follows, and the records are made with them.
buildSnapshotFrom(out) ==
    CHOOSE built \in
        { snapshotWithIds(out, ids) :
            ids \in { buildSnapshotIds(
                          [users |-> out.users,
                           groups |-> [i \in 1..Len(out.groups) |-> out.groups[i].id]]) } } :
        TRUE

\* One build, from the adaptor's answer to the finished snapshot
BuildSnapshot ==
    \E out \in RawOutputs :
        LET built == buildSnapshotFrom(out) IN
        /\ uidAllocator' = built.uidAllocator
        /\ gidAllocator' = built.gidAllocator
        /\ builtSnapshot' = <<built.snapshot>>
        /\ fetched' = <<out>>
        /\ everAssigned' = [uid |-> withFirstIds(everAssigned.uid, built.uidAllocator.byKey),
                            gid |-> withFirstIds(everAssigned.gid, built.gidAllocator.byKey)]
        /\ UNCHANGED <<cfgVars, schedVars, connVars, listening, tokenVars, healthVars, callVars,
                       salt, redisEnabled, syntheticPrimaryGroup, mappingStore,
                       lastAllocation, firstReturned, maxImported, restarts>>

\* ------------------------------------------------------------------------
\* OAuth2Client
\* ------------------------------------------------------------------------

\* The callers of getAccessToken; caller 1 is LDAPtoIDMain.createAdaptor
Callers == 1..MaxCallers

\* `expires_in` of a token response, in seconds: shorter than the buffer, and
\* one and two seconds longer
ExpiresIn == {5, bufferSeconds + 1, bufferSeconds + 2}

\* (mutant of cachedValid: a token is served up to and including the moment
\* the buffer starts)
cachedValid_AtBuffer ==
    /\ tokenCache # Undefined
    /\ tokenCache[1].expiresAt >= now + bufferSeconds * 1000

\* `cached && cached.expiresAt > Date.now() + (this.bufferSeconds * 1000)`
cachedValid ==
    /\ tokenCache # Undefined
    /\ tokenCache[1].expiresAt > now + bufferSeconds * 1000

\* getAccessToken up to its return or its `await this.fetchToken`, for one
\* cache key
GetAccessTokenBy(c) ==
    /\ callerPc[c] = "idle"
    /\ lastCall' = <<[caller |-> c,
                      tick |-> IF lastCall = Undefined THEN TRUE ELSE ~lastCall[1].tick,
                      hadEntry |-> tokenCache # Undefined,
                      remaining |-> IF tokenCache # Undefined
                                    THEN tokenCache[1].expiresAt - now ELSE 0,
                      fromCache |-> cachedValid]>>
    /\ IF cachedValid
       THEN /\ served' = [served EXCEPT ![c] = <<tokenCache[1].token>>]
            /\ UNCHANGED <<callerPc, tokenFetches>>
       ELSE /\ tokenFetches < MaxTokens
            /\ callerPc' = [callerPc EXCEPT ![c] = "fetching"]
            /\ tokenFetches' = tokenFetches + 1
            /\ UNCHANGED served
    /\ UNCHANGED <<cfgVars, schedVars, connVars, listening, idVars, builderVars, healthVars, callVars,
                   tokenCache, now, issued, adaptorToken, build, builds>>

\* Some caller calls getAccessToken
GetAccessToken == \E c \in Callers : GetAccessTokenBy(c)

\* fetchToken resolves: the token is cached with its expiry and returned
FetchReturns ==
    \E c \in Callers, expires_in \in ExpiresIn :
        /\ callerPc[c] = "fetching"
        /\ issued' = issued + 1
        /\ tokenCache' = <<[token |-> issued + 1, expiresAt |-> now + expires_in * 1000]>>
        /\ served' = [served EXCEPT ![c] = <<issued + 1>>]
        /\ callerPc' = [callerPc EXCEPT ![c] = "idle"]
        /\ UNCHANGED <<cfgVars, schedVars, connVars, listening, idVars, builderVars, healthVars, callVars,
                       now, lastCall, tokenFetches, adaptorToken, build, builds>>

\* fetchToken rejects (`!response.ok`): getAccessToken throws, the cache stays
FetchFails ==
    \E c \in Callers :
        /\ callerPc[c] = "fetching"
        /\ callerPc' = [callerPc EXCEPT ![c] = "idle"]
        /\ UNCHANGED <<cfgVars, schedVars, connVars, listening, idVars, builderVars, healthVars, callVars,
                       tokenCache, now, served, issued, lastCall, tokenFetches,
                       adaptorToken, build, builds>>

\* A second passes
Tick ==
    /\ now < MaxTicks * 1000
    /\ now' = now + 1000
    /\ UNCHANGED <<cfgVars, schedVars, connVars, listening, idVars, builderVars, healthVars, callVars,
                   tokenCache, callerPc, served, issued, lastCall, tokenFetches,
                   adaptorToken, build, builds>>

\* ------------------------------------------------------------------------
\* LDAPtoIDMain.createAdaptor and KeycloakAdaptor.fetchUsers
\* ------------------------------------------------------------------------

\* createAdaptor: `await this.oauthClient.getAccessToken(...)`, the only call
\* of getAccessToken in the program
CreateAdaptor ==
    /\ adaptorToken = Undefined
    /\ served[1] = Undefined
    /\ GetAccessTokenBy(1)

\* createAdaptor after the await: `new KeycloakAdaptor(baseUrl, accessToken)`
ConstructAdaptor ==
    /\ adaptorToken = Undefined
    /\ served[1] # Undefined
    /\ adaptorToken' = served[1]
    /\ UNCHANGED <<cfgVars, schedVars, connVars, listening, idVars, builderVars, healthVars, callVars,
                   tokenCache, now, callerPc, served, issued, lastCall, tokenFetches,
                   build, builds>>

\* The statuses the IdP may answer GET /users with
UsersStatuses == {200, 401, 500}

\* fetchUsers of one build: one request with the token of the constructor;
\* `if (!response.ok) throw`, and buildSnapshot fails with it
FetchUsers ==
    \E status \in UsersStatuses :
        /\ adaptorToken # Undefined
        /\ builds < MaxBuilds
        /\ builds' = builds + 1
        /\ build' = [outcome |-> IF status = 200 THEN "ok" ELSE "failed",
                     requests |-> 1,
                     unauthorized |-> status = 401,
                     token |-> adaptorToken[1],
                     fetchesBefore |-> tokenFetches]
        /\ UNCHANGED <<cfgVars, schedVars, connVars, listening, idVars, builderVars, healthVars, callVars,
                       tokenCache, now, callerPc, served, issued, lastCall, tokenFetches,
                       adaptorToken>>

\* ------------------------------------------------------------------------
\* HealthService
\* ------------------------------------------------------------------------

\* (mutant of checkSnapshot: a missing snapshot is not a failure)
checkSnapshot_NeverFails(isStale) == IF isStale THEN "warn" ELSE "pass"

\* checkSnapshot(): the status; main sets the scheduler, and isStale is
\* whether the uptime exceeds snapshotMaxAgeMs
checkSnapshot(isStale) ==
    IF getCurrentSnapshot = Undefined THEN "fail"
    ELSE IF isStale THEN "warn" ELSE "pass"

\* checkAdaptor(): main sets the adaptor, and performAdaptorHealthCheck
\* answers "pass" without calling it
checkAdaptor == "pass"

\* checkLDAPServer(): main sets the server
checkLDAPServer == "pass"

\* checkRefreshScheduler(): the status
checkRefreshScheduler ==
    IF ~isHealthy THEN "fail"
    ELSE IF consecutiveFailures > 0 THEN "warn" ELSE "pass"

\* The scheduler gave up: scheduleNext met maxRetries consecutive failures
\* and cleared isRunning
halted == ~isRunning /\ consecutiveFailures >= MaxRetries

\* GET of the readiness path, served once startServices has started the
\* health server: getReadiness
GetReadiness ==
    \E isStale \in BOOLEAN :
        /\ listening
        /\ retQueue = <<>>
        /\ readiness' = [ready |-> checkSnapshot(isStale) # "fail" /\ checkAdaptor # "fail",
                         published |-> lastGood # Undefined]
        /\ UNCHANGED <<cfgVars, schedVars, connVars, listening, idVars, tokenVars,
                       builderVars, callVars, liveness>>

\* GET of the liveness path: getLiveness
GetLiveness ==
    /\ listening
    /\ retQueue = <<>>
    /\ liveness' = [alive |-> checkLDAPServer # "fail" /\ checkRefreshScheduler # "fail",
                    halted |-> halted]
    /\ UNCHANGED <<cfgVars, schedVars, connVars, listening, idVars, tokenVars,
                   builderVars, callVars, readiness>>

\* ------------------------------------------------------------------------
\* Specifications
\* ------------------------------------------------------------------------

\* The allocators, the token cache and the adaptor after construction
InitServices ==
    /\ uidAllocator = NewAllocator
    /\ gidAllocator = NewAllocator
    /\ mappingStore = {}
    /\ builtSnapshot = Undefined
    /\ lastAllocation = Undefined
    /\ firstReturned = [k \in {} |-> 0]
    /\ maxImported = 0
    /\ everAssigned = [uid |-> [k \in {} |-> 0], gid |-> [k \in {} |-> 0]]
    /\ restarts = 0
    /\ tokenCache = Undefined
    /\ now = 0
    /\ callerPc = [c \in Callers |-> "idle"]
    /\ served = [c \in Callers |-> Undefined]
    /\ issued = 0
    /\ lastCall = Undefined
    /\ tokenFetches = 0
    /\ adaptorToken = Undefined
    /\ build = Undefined
    /\ builds = 0
    /\ fetched = Undefined
    /\ readiness = Undefined
    /\ liveness = Undefined
    /\ startCalled = FALSE

\* The options of the allocators and the store where they play no part
InitServiceConfig ==
    /\ salt = "spread"
    /\ redisEnabled = FALSE
    /\ syntheticPrimaryGroup = FALSE

\* The options of the allocators and the store that are explored
InitIdConfig ==
    /\ salt \in Salts
    /\ redisEnabled \in BOOLEAN
    /\ syntheticPrimaryGroup \in BOOLEAN

\* The state after construction (LDAPtoIDMain.initializeServices), but for the
\* configuration
InitState ==
    /\ currentSnapshot = Undefined
    /\ isRunning = FALSE
    /\ timeoutId = 0
    /\ consecutiveFailures = 0
    /\ currentBackoffMs = 0
    /\ pendingTimers = {}
    /\ nextTimerId = 1
    /\ inflight = [k \in Kinds |-> 0]
    /\ retQueue = <<>>
    /\ sequenceCounter = 0
    /\ srvSnapshot = Undefined
    /\ executorSnapshot = <<[users |-> <<>>, groups |-> <<>>, sequence |-> 0]>>
    /\ attempts = 0
    /\ finished = 0
    /\ lastOutcome = "none"
    /\ lastGood = Undefined
    /\ failStreak = 0
    /\ callbackCount = 0
    /\ connOpen = FALSE
    /\ authenticated = FALSE
    /\ lastReq = [op |-> "none"]
    /\ resp = <<>>
    /\ searchPc = "none"
    /\ toWrite = <<>>
    /\ doneCode = Success
    /\ inbuf = <<>>
    /\ stalledOn = "none"
    /\ reqId = 0
    /\ respIds = <<>>
    /\ sent = 0
    /\ controls = <<>>
    /\ doneControls = <<>>
    /\ wireFilter = "none"
    /\ reqTick = FALSE
    /\ everBound = FALSE
    /\ everSentBind = FALSE
    /\ dispatched = FALSE
    /\ reqSnapshot = Undefined
    /\ listening = FALSE
    /\ InitServices

\* Scheduler options explored
InitSchedulerConfig ==
    \E c \in SchedulerConfigs : refreshIntervalMs = c[1] /\ maxBackoffMs = c[2]

\* Bind options explored: each of bindDN, bindPassword set or not
InitBindConfig ==
    /\ bindDN \in {Undefined, <<"cn=svc">>}
    /\ bindPassword \in {Undefined, <<"s3cret">>}
    /\ allowAnonymousBind \in BOOLEAN

Init == InitSchedulerConfig /\ InitBindConfig /\ InitIdConfig /\ InitState

Next ==
    \/ Start
    \/ Stop
    \/ BuildSucceeds
    \/ BuildFails
    \/ ScheduleNext
    \/ TimerFire
    \/ ForceRefresh
    \/ Connect
    \/ ClientSends
    \/ ClientCloses
    \/ DecodeFails
    \/ ReceiveBind
    \/ ReceiveSearch
    \/ ReceiveScopedSearch
    \/ WriteEntry
    \/ WriteDone
    \/ ReceiveUnbind
    \/ ReceiveOther
    \/ ReceiveWireSearch
    \/ Allocate
    \/ ImportMapping
    \/ BuildIds
    \/ Restart
    \/ BuildSnapshot
    \/ GetAccessToken
    \/ FetchReturns
    \/ FetchFails
    \/ Tick
    \/ CreateAdaptor
    \/ ConstructAdaptor
    \/ FetchUsers
    \/ GetReadiness
    \/ GetLiveness

Spec == Init /\ [][Next]_vars

\* The scheduler as the program drives it: start(), stop() and the timers.
\* (LDAPtoIDMain never calls forceRefresh.)  The connection does not act.
InitScheduler ==
    /\ InitSchedulerConfig
    /\ bindDN = <<"cn=svc">> /\ bindPassword = <<"s3cret">> /\ allowAnonymousBind = FALSE
    /\ InitServiceConfig
    /\ InitState

NextScheduler ==
    \/ Start
    \/ Stop
    \/ BuildSucceeds
    \/ BuildFails
    \/ ScheduleNext
    \/ TimerFire

SpecScheduler == InitScheduler /\ [][NextScheduler]_vars

\* The scheduler on the event loop: the continuation of a resolved await
\* runs and a timer that is due fires.  Whether a fetch is ever answered is
\* up to the IdP and the network: fetchUsers and fetchGroups call fetch
\* without a signal or a timeout.
SpecSchedulerLive ==
    InitScheduler /\ [][NextScheduler]_vars /\ WF_vars(ScheduleNext) /\ WF_vars(TimerFire)

\* The scheduler with forceRefresh() called by a user of the class as well
NextRefresh ==
    \/ Start
    \/ Stop
    \/ BuildSucceeds
    \/ BuildFails
    \/ ScheduleNext
    \/ TimerFire
    \/ ForceRefresh

SpecRefresh == InitScheduler /\ [][NextRefresh]_vars

\* One LDAP connection under every Bind configuration; the scheduler makes its
\* initial build only, which succeeds or fails, so that Searches meet a server
\* with and without a snapshot
InitBind ==
    /\ refreshIntervalMs = 2 /\ maxBackoffMs = 16
    /\ InitBindConfig
    /\ InitServiceConfig
    /\ InitState

NextBind ==
    \/ Start
    \/ BuildSucceeds
    \/ BuildFails
    \/ ScheduleNext
    \/ Connect
    \/ ClientSends
    \/ ClientCloses
    \/ DecodeFails
    \/ ReceiveBind
    \/ ReceiveSearch
    \/ WriteEntry
    \/ WriteDone

SpecBind == InitBind /\ [][NextBind]_vars

\* One LDAP connection that may search without Bind, while the scheduler keeps
\* publishing snapshots
InitSearch ==
    /\ refreshIntervalMs = 2 /\ maxBackoffMs = 16
    /\ bindDN = Undefined /\ bindPassword = Undefined /\ allowAnonymousBind = FALSE
    /\ InitServiceConfig
    /\ InitState

NextSearch ==
    \/ Start
    \/ BuildSucceeds
    \/ BuildFails
    \/ ScheduleNext
    \/ TimerFire
    \/ Connect
    \/ ClientSends
    \/ ReceiveSearch
    \/ WriteEntry
    \/ WriteDone

SpecSearch == InitSearch /\ [][NextSearch]_vars

\* One LDAP connection that needs no Bind, with pipelined Binds and Searches
\* of every scope; the scheduler makes its initial build only
NextDirectory ==
    \/ Start
    \/ BuildSucceeds
    \/ BuildFails
    \/ ScheduleNext
    \/ Connect
    \/ ClientSends
    \/ ClientCloses
    \/ ReceiveBind
    \/ ReceiveScopedSearch
    \/ WriteEntry
    \/ WriteDone

SpecDirectory == InitSearch /\ [][NextDirectory]_vars

\* LDAPServer with messages as they come off the wire: controls and filter kinds
NextWire ==
    \/ Start
    \/ BuildSucceeds
    \/ BuildFails
    \/ ScheduleNext
    \/ Connect
    \/ ClientSends
    \/ ClientCloses
    \/ ReceiveWireSearch
    \/ WriteEntry
    \/ WriteDone

SpecWire == InitSearch /\ [][NextWire]_vars

\* One IdAllocator under calls of allocate and importMapping
InitAllocator ==
    /\ refreshIntervalMs = 2 /\ maxBackoffMs = 16
    /\ bindDN = Undefined /\ bindPassword = Undefined /\ allowAnonymousBind = FALSE
    /\ salt \in Salts
    /\ redisEnabled = FALSE
    /\ syntheticPrimaryGroup = FALSE
    /\ InitState

NextAllocator ==
    \/ Allocate
    \/ ImportMapping

SpecAllocator == InitAllocator /\ [][NextAllocator]_vars

\* The ids of the snapshots the program builds, across a restart
InitIds ==
    /\ refreshIntervalMs = 2 /\ maxBackoffMs = 16
    /\ bindDN = Undefined /\ bindPassword = Undefined /\ allowAnonymousBind = FALSE
    /\ InitIdConfig
    /\ InitState

NextIds ==
    \/ BuildIds
    \/ Restart

SpecIds == InitIds /\ [][NextIds]_vars

\* The snapshots one SnapshotBuilder builds
InitBuilder ==
    /\ refreshIntervalMs = 2 /\ maxBackoffMs = 16
    /\ bindDN = Undefined /\ bindPassword = Undefined /\ allowAnonymousBind = FALSE
    /\ salt = "spread"
    /\ redisEnabled = FALSE
    /\ syntheticPrimaryGroup \in BOOLEAN
    /\ InitState

NextBuilder ==
    \/ BuildSnapshot

SpecBuilder == InitBuilder /\ [][NextBuilder]_vars

\* The health probes while the scheduler runs
NextHealth ==
    \/ Start
    \/ BuildSucceeds
    \/ BuildFails
    \/ ScheduleNext
    \/ TimerFire
    \/ GetReadiness
    \/ GetLiveness

SpecHealth == InitSearch /\ [][NextHealth]_vars

\* OAuth2Client.getAccessToken under concurrent callers and a running clock
NextOAuth ==
    \/ GetAccessToken
    \/ FetchReturns
    \/ FetchFails
    \/ Tick

SpecOAuth == InitSearch /\ [][NextOAuth]_vars

\* The adaptor as main constructs it, and the builds it serves
NextAdaptor ==
    \/ CreateAdaptor
    \/ FetchReturns
    \/ FetchFails
    \/ Tick
    \/ ConstructAdaptor
    \/ FetchUsers

SpecAdaptor == InitSearch /\ [][NextAdaptor]_vars

\* ------------------------------------------------------------------------
\* Properties
\* ------------------------------------------------------------------------

\* A performRefresh invocation returns in this step, with this outcome
RefreshReturns(outcome) == finished' = finished + 1 /\ lastOutcome' = outcome

\* C1: a failed build never changes the snapshot being served.  The step in
\* which a refresh attempt (of start(), of a timer, or forced) fails leaves the
\* scheduler's current snapshot, the LDAP server's snapshot and the search
\* executor's snapshot as they were and invokes no snapshot-update callback;
\* these change only in the step in which an attempt succeeds.
C1_FailedBuildKeepsSnapshot ==
    [][ /\ RefreshReturns("fail") =>
            UNCHANGED <<currentSnapshot, srvSnapshot, executorSnapshot, callbackCount>>
        /\ ~UNCHANGED <<currentSnapshot, srvSnapshot, executorSnapshot, callbackCount>> =>
            RefreshReturns("ok") ]_vars

\* A forced or timer-driven attempt has failed while a good snapshot is served
C1_Witness ==
    /\ lastOutcome = "fail"
    /\ failStreak >= 2
    /\ currentSnapshot # Undefined
    /\ srvSnapshot = currentSnapshot
    /\ callbackCount = 1

\* C3: at most one snapshot build runs at a time, also when forceRefresh is
\* called while another build is in progress.
C3_AtMostOneBuild == InFlightCount <= 1

RECURSIVE Backoff(_)
Backoff(k) ==
    IF k <= 1
    THEN Min(refreshIntervalMs, maxBackoffMs)
    ELSE Min(maxBackoffMs, Backoff(k - 1) * backoffMultiplier)

\* C5: the delay of every timer set for the next attempt is refreshIntervalMs
\* when the last build to finish succeeded, min(refreshIntervalMs, maxBackoff)
\* after the first failure, and min(maxBackoff, previous delay * multiplier)
\* after each further consecutive failure.
C5_BackoffDelays ==
    [][ \A t \in pendingTimers' \ pendingTimers :
            t.delay = IF failStreak = 0 THEN refreshIntervalMs ELSE Backoff(failStreak)
      ]_vars

\* Three failures in a row: the timer is set to the base delay times r * r
C5_Witness ==
    /\ failStreak = 3
    /\ maxBackoffMs > refreshIntervalMs * backoffMultiplier * backoffMultiplier
    /\ \E t \in pendingTimers :
           t.delay = refreshIntervalMs * backoffMultiplier * backoffMultiplier

\* A request of this operation is decoded and handled in this step
Decodes(op) == reqTick' # reqTick /\ lastReq'.op = op

\* Both service-account credentials are configured
CredentialsConfigured == bindDN # Undefined /\ bindPassword # Undefined

IsPrefix(a, b) == Len(a) <= Len(b) /\ SubSeq(b, 1, Len(a)) = a

EntriesOf(pdus) == SelectSeq(pdus, LAMBDA p : p.type = "SearchResultEntry")

\* The entries handleSearch sends for a request when the server holds `snapshot`
ResponseEntries(snapshot, request) ==
    applyLimits(executeSearch(snapshot, request), request.sizeLimit)

\* C2: every entry of one Search response is taken from a single snapshot, the
\* one the server held when the request was dispatched: at any moment the
\* entries written so far are the first entries of the result computed from
\* that snapshot, and the finished response is exactly that result (unless the
\* search threw and the response is the OperationsError Done alone), whatever
\* snapshots were published meanwhile.
C2_OneSnapshotPerResponse ==
    (connOpen /\ lastReq.op = "search" /\ dispatched /\ reqSnapshot # Undefined
       /\ isBaseObjectInScope(lastReq.baseObject)) =>
        LET whole == ResponseEntries(reqSnapshot[1], lastReq) IN
        /\ IsPrefix(EntriesOf(resp), whole)
        /\ (searchPc = "none" /\ resp # <<SearchResultDone(OperationsError)>>) =>
               EntriesOf(resp) = whole

\* A snapshot with other entries was published in the middle of a response
C2_Witness ==
    /\ searchPc = "writing"
    /\ resp # <<>>
    /\ toWrite # <<>>
    /\ srvSnapshot # reqSnapshot
    /\ ResponseEntries(srvSnapshot[1], lastReq) # ResponseEntries(reqSnapshot[1], lastReq)

\* C6: while service-account credentials are configured, a SearchRequest on a
\* connection with no successful Bind is answered with a single
\* SearchResultDone carrying insufficientAccessRights, no entry is sent, and
\* the connection state is unchanged.
C6_SearchNeedsBind ==
    [][ (Decodes("search") /\ CredentialsConfigured /\ ~everBound) =>
            /\ resp' = <<SearchResultDone(InsufficientAccessRights)>>
            /\ searchPc' = "none"
            /\ ~dispatched'
            /\ authenticated' = authenticated
            /\ connOpen' = connOpen ]_vars

\* A Search was refused although the server had a snapshot to search
C6_Witness ==
    /\ lastReq.op = "search"
    /\ CredentialsConfigured
    /\ ~everBound
    /\ srvSnapshot # Undefined
    /\ resp = <<SearchResultDone(InsufficientAccessRights)>>

\* C7: with service-account credentials configured, a simple Bind with a
\* non-empty DN succeeds, and makes the connection Bound, only if DN and
\* password equal bindDN and bindPassword; every other such Bind is answered
\* invalidCredentials.
C7_BindChecksCredentials ==
    [][ (Decodes("bind") /\ CredentialsConfigured
           /\ lastReq'.auth = "simple" /\ lastReq'.name # "") =>
            LET match == /\ <<lastReq'.name>> = bindDN
                         /\ <<lastReq'.password>> = bindPassword
            IN  /\ match => (resp' = <<BindResponse(Success)>> /\ authenticated')
                /\ ~match => resp' = <<BindResponse(InvalidCredentials)>> ]_vars

\* C8 as stated: a Bind answered invalidCredentials leaves the connection
\* state unchanged (a Bound connection stays Bound).
C8_FailedBindKeepsState ==
    [][ (Decodes("bind") /\ resp' = <<BindResponse(InvalidCredentials)>>) =>
            /\ authenticated' = authenticated
            /\ connOpen' = connOpen ]_vars

\* C8 as amended: a Bind answered invalidCredentials leaves the connection
\* open and unauthenticated, whatever it was before; while a bindDN is
\* configured the Search that follows it is answered insufficientAccessRights.
C8_FailedBindUnauthenticates ==
    [][ /\ (Decodes("bind") /\ resp' = <<BindResponse(InvalidCredentials)>>) =>
            (connOpen' /\ ~authenticated')
        /\ (Decodes("search") /\ lastReq.op = "bind" /\ Truthy(bindDN)
              /\ resp = <<BindResponse(InvalidCredentials)>>) =>
            (resp' = <<SearchResultDone(InsufficientAccessRights)>> /\ ~dispatched')
      ]_vars

\* A connection that was Bound has had a Bind answered invalidCredentials
C8_Witness ==
    /\ connOpen
    /\ lastReq.op = "bind"
    /\ resp = <<BindResponse(InvalidCredentials)>>
    /\ everBound
    /\ ~authenticated

\* C9: if allowAnonymousBind is true, or no service-account credentials are
\* configured, a SearchRequest on a connection that has never sent a Bind is
\* dispatched to the search executor.
C9_SearchWithoutBind ==
    [][ (Decodes("search") /\ ~everSentBind
           /\ (allowAnonymousBind \/ (bindDN = Undefined /\ bindPassword = Undefined)))
          => dispatched' ]_vars

\* C10: a simple Bind with empty DN and empty password succeeds if and only
\* if allowAnonymousBind is true.
C10_AnonymousBindIffAllowed ==
    [][ (Decodes("bind") /\ lastReq'.auth = "simple"
           /\ lastReq'.name = "" /\ lastReq'.password = "") =>
            ((resp' = <<BindResponse(Success)>>) <=> allowAnonymousBind) ]_vars

\* C11: every rejected simple Bind with a non-empty DN gets the same result
\* code, invalidCredentials, whether its DN is not the configured one or its
\* password is wrong.
C11_RejectedBindSameCode ==
    [][ (Decodes("bind") /\ lastReq'.auth = "simple" /\ lastReq'.name # ""
           /\ resp' # <<BindResponse(Success)>>) =>
            resp' = <<BindResponse(InvalidCredentials)>> ]_vars

\* A Bind with an unknown DN and the configured password was rejected
C11_Witness ==
    /\ lastReq.op = "bind"
    /\ lastReq.name = "cn=other"
    /\ <<lastReq.password>> = bindPassword
    /\ resp = <<BindResponse(InvalidCredentials)>>
    /\ respIds = <<reqId>>

\* Zero or more SearchResultEntry PDUs followed by exactly one SearchResultDone
IsEntriesThenDone(pdus) ==
    /\ pdus # <<>>
    /\ pdus[Len(pdus)].type = "SearchResultDone"
    /\ \A i \in 1..(Len(pdus) - 1) : pdus[i].type = "SearchResultEntry"

\* C12: every dispatched SearchRequest is answered by zero or more
\* SearchResultEntry PDUs followed by exactly one SearchResultDone, all with
\* the request's messageID, on every path (normal result, no snapshot, base
\* outside the suffix, internal search error): while the response is being
\* written only entries of this request have been written, and once
\* handleSearch has returned the response is entries then one Done.
C12_EntriesThenOneDone ==
    (lastReq.op = "search" /\ dispatched) =>
        /\ Len(respIds) = Len(resp)
        /\ \A i \in 1..Len(respIds) : respIds[i] = reqId
        /\ IF searchPc = "none"
           THEN IsEntriesThenDone(resp)
           ELSE \A i \in 1..Len(resp) : resp[i].type = "SearchResultEntry"

\* The second request of a connection was a Search answered with several
\* entries and its Done
C12_Witness ==
    /\ lastReq.op = "search"
    /\ dispatched
    /\ searchPc = "none"
    /\ reqId = 2
    /\ Len(resp) >= 3
    /\ IsEntriesThenDone(resp)

\* C13: on one connection responses are written in the order the requests
\* arrived, and no PDU of another request is written between the first Entry
\* and the Done of a Search response, also when requests are pipelined.  The
\* messageIDs number the requests in arrival order: a request is taken up only
\* when the response to the one before it is complete, it is the next one in
\* arrival order, and every PDU written carries the messageID of the request
\* taken up last.
C13_ResponsesInArrivalOrder ==
    [][ /\ (reqTick' # reqTick) =>
              /\ searchPc = "none"
              /\ (lastReq.op = "search" /\ dispatched) => IsEntriesThenDone(resp)
              /\ reqId' = reqId + 1
        /\ (connOpen /\ connOpen') =>
              \A i \in 1..Len(respIds') : respIds'[i] = reqId'
      ]_vars

\* A Search response is being written while two later requests wait in the
\* buffer
C13_Witness ==
    /\ connOpen
    /\ searchPc = "writing"
    /\ resp # <<>>
    /\ toWrite # <<>>
    /\ Len(inbuf) = 2

\* The handler takes a PDU of this operation from the buffer in this step:
\* it is decoded and handled, or tryDecode returns null for it
TakesUp(op) == Decodes(op) \/ (stalledOn = "none" /\ stalledOn' = op)

\* C14: on receiving an UnbindRequest, in any state, the server closes the
\* connection, and it processes no later request on that connection.
C14_UnbindCloses ==
    [][ /\ TakesUp("unbind") => ~connOpen'
        /\ (connOpen /\ (stalledOn = "unbind" \/ lastReq.op = "unbind")) =>
              reqTick' = reqTick ]_vars

\* C15: a well-formed request of an operation other than Bind, Search or
\* Unbind is answered with protocolError on the same messageID, and the
\* connection stays open in the same state, so that later requests are served.
C15_OtherOperationProtocolError ==
    [][ TakesUp("other") =>
            /\ resp' = <<SearchResultDone(ProtocolError)>>
            /\ respIds' = <<nextMessage>>
            /\ connOpen'
            /\ authenticated' = authenticated
            /\ (inbuf' # <<>> => AtDecode') ]_vars

\* C16: when a received PDU is complete but cannot be decoded, the connection
\* is closed.
C16_DecodeErrorCloses ==
    [][ TakesUp("malformed") => ~connOpen' ]_vars

\* C17: the number of SearchResultEntry PDUs of one Search response never
\* exceeds the server's sizeLimit, nor the client's sizeLimit when that is
\* greater than 0; a client sizeLimit can lower the cap but never raise it.
C17_EntriesWithinSizeLimit ==
    (lastReq.op = "search" /\ dispatched) =>
        /\ Len(EntriesOf(resp)) <= ServerSizeLimit
        /\ lastReq.sizeLimit > 0 => Len(EntriesOf(resp)) <= lastReq.sizeLimit

\* A Search that asked for more than the server's limit, with more eligible
\* entries than that limit, was answered with the server's limit of entries
C17_Witness ==
    /\ lastReq.op = "search"
    /\ dispatched
    /\ searchPc = "none"
    /\ reqSnapshot # Undefined
    /\ lastReq.sizeLimit > ServerSizeLimit
    /\ Len(executeSearch(reqSnapshot[1], lastReq)) > ServerSizeLimit
    /\ Len(EntriesOf(resp)) = ServerSizeLimit

\* The effective size limit of a request: the server's, lowered by a client
\* sizeLimit greater than 0
EffectiveLimit(request) ==
    Min(ServerSizeLimit,
        IF request.sizeLimit > 0 THEN request.sizeLimit ELSE ServerSizeLimit)

\* The last Search was dispatched against a snapshot, for a base inside the
\* suffix, and its response is complete and not the OperationsError Done
SearchAnswered ==
    /\ lastReq.op = "search"
    /\ dispatched
    /\ searchPc = "none"
    /\ reqSnapshot # Undefined
    /\ isBaseObjectInScope(lastReq.baseObject)
    /\ resp # <<SearchResultDone(OperationsError)>>

\* C18: when a Search has more eligible entries than the effective size limit,
\* exactly that many entries are sent and the SearchResultDone carries
\* sizeLimitExceeded (4).
C18_SizeLimitExceededReported ==
    (SearchAnswered
       /\ Len(executeSearch(reqSnapshot[1], lastReq)) > EffectiveLimit(lastReq)) =>
        /\ Len(EntriesOf(resp)) = EffectiveLimit(lastReq)
        /\ resp[Len(resp)] = SearchResultDone(SizeLimitExceeded)

\* Position of a kind of entry in the order the claim gives
KindOrder(kind) ==
    CASE kind = "ou" -> 1
      [] kind = "user" -> 2
      [] kind = "group" -> 3
      [] OTHER -> 0

\* Alphabetical position of the names used here
NameOrder(rdn) ==
    CASE rdn \in {"uid=alice", "cn=devs"} -> 1
      [] rdn = "uid=bob" -> 2
      [] rdn = "uid=carol" -> 3
      [] OTHER -> 0

\* C19: in every Search response all OU entries come before all user entries,
\* which come before all group entries, with users in ascending uid order and
\* groups in ascending cn order.
C19_OUsUsersGroupsOrder ==
    (lastReq.op = "search" /\ dispatched) =>
        LET sentEntries == EntriesOf(resp) IN
        \A i, j \in 1..Len(sentEntries) :
            i < j =>
                /\ KindOrder(sentEntries[i].kind) <= KindOrder(sentEntries[j].kind)
                /\ (sentEntries[i].kind = sentEntries[j].kind
                      /\ sentEntries[i].kind \in {"user", "group"}) =>
                        NameOrder(sentEntries[i].dn[1]) < NameOrder(sentEntries[j].dn[1])

\* The elements of a sequence
Range(seq) == {seq[i] : i \in 1..Len(seq)}

\* The DNs of the entries the directory holds for a snapshot: the suffix, the
\* two OUs, the users and the groups
DirectoryDNs(snapshot) ==
    {baseDN, userDNBase, groupDNBase}
        \cup {<<"uid=" \o u>> \o userDNBase : u \in Range(snapshot.users)}
        \cup {<<"cn=" \o g>> \o groupDNBase : g \in Range(snapshot.groups)}

\* The entries a scope selects below a base, as the claim states them
ScopeDNs(snapshot, request) ==
    {dn \in DirectoryDNs(snapshot) :
        CASE request.scope = 0 -> dn = request.baseObject
          [] request.scope = 1 -> /\ Len(dn) = Len(request.baseObject) + 1
                                  /\ IsSuffixOf(request.baseObject, dn)
          [] OTHER -> IsSuffixOf(request.baseObject, dn)}

\* C20: for a base inside the suffix, scope baseObject returns exactly the
\* named entry, singleLevel exactly the direct children of the base, and
\* wholeSubtree the base entry and all its descendants, the suffix entry and
\* the two OU entries included (the filter here matches every entry; the
\* response was not cut by a size limit).
C20_ScopeSelectsEntries ==
    (SearchAnswered /\ Len(EntriesOf(resp)) < EffectiveLimit(lastReq)) =>
        {e.dn : e \in Range(EntriesOf(resp))} = ScopeDNs(reqSnapshot[1], lastReq)

\* C21: a Search handed to handleSearch while no snapshot has ever been
\* published (the snapshot-update callback has never run) is answered, in the
\* step that takes it up, with exactly one PDU: a SearchResultDone carrying
\* unavailable (52) and the request's messageID; no entry is written and
\* handleSearch has returned.
C21_NoSnapshotUnavailable ==
    [][ (Decodes("search") /\ dispatched' /\ callbackCount = 0) =>
            /\ resp' = <<SearchResultDone(Unavailable)>>
            /\ respIds' = <<reqId'>>
            /\ searchPc' = "none"
            /\ toWrite' = toWrite ]_vars

\* The initial build failed, the server listens without a snapshot, and a
\* Search was answered with the single Done
C21_Witness ==
    /\ listening
    /\ callbackCount = 0
    /\ lastReq.op = "search"
    /\ dispatched
    /\ searchPc = "none"
    /\ resp = <<SearchResultDone(Unavailable)>>
    /\ respIds = <<reqId>>

\* The message decoded last is a Search that carried the paged results control
CarriesPagedControl ==
    /\ lastReq.op = "search"
    /\ \E i \in 1..Len(controls) : controls[i].controlType = PagedResultsOID

\* C22: a Search whose filter is of a kind the server does not support (here
\* extensibleMatch) and that is handed to handleSearch with a snapshot
\* published ends with a single SearchResultDone carrying unwillingToPerform
\* (53): no entry is written, so it is not evaluated as some other filter.
C22_UnsupportedFilterUnwilling ==
    (/\ lastReq.op = "search"
     /\ wireFilter \notin {"none", "present"}
     /\ dispatched
     /\ reqSnapshot # Undefined) =>
        /\ searchPc = "none"
        /\ resp = <<SearchResultDone(UnwillingToPerform)>>

\* C23: whenever the SearchRequest carried the Simple Paged Results control,
\* the SearchResultDone that answers it carries that control with size 0 and
\* an empty cookie, and the response holds all entries of the result, up to
\* the size limit, in front of that one Done.
C23_PagedControlAcknowledged ==
    (CarriesPagedControl /\ searchPc = "none") =>
        /\ resp # <<>>
        /\ resp[Len(resp)].type = "SearchResultDone"
        /\ doneControls = <<[controlType |-> PagedResultsOID, criticality |-> FALSE,
                             controlValue |-> encodePagedControlValue(0, <<>>)]>>
        /\ (dispatched /\ reqSnapshot # Undefined /\ resp[Len(resp)].resultCode \in {Success, SizeLimitExceeded}) =>
               EntriesOf(resp) = applyLimits(executeSearch(reqSnapshot[1], lastReq),
                                             lastReq.sizeLimit)

\* C24: once allocate(key) has returned an id, every later allocate(key) on
\* the same allocator returns that same id, whatever other keys were allocated
\* or imported in between: the id of the last call is the id the key's first
\* call returned, and the allocator holds that id for every key it has
\* returned one for.
C24_AllocateIsStable ==
    /\ lastAllocation # Undefined =>
           lastAllocation[1].result.id = firstReturned[lastAllocation[1].key]
    /\ \A key \in DOMAIN firstReturned :
           /\ key \in DOMAIN uidAllocator.byKey
           /\ uidAllocator.byKey[key] = firstReturned[key]

\* A key is allocated again after the other keys were allocated and a
\* mapping was imported
C24_Witness ==
    /\ lastAllocation # Undefined
    /\ lastAllocation[1].again
    /\ maxImported > 0
    /\ Cardinality(DOMAIN uidAllocator.byKey) = 3

\* C25: in every snapshot no two users share a uidNumber (posixUid), no two
\* groups, real or synthetic, share a gidNumber (posixGid), and every
\* uidNumber is greater than the allocator floor.
C25_SnapshotIdsUnique ==
    builtSnapshot # Undefined =>
        LET users == builtSnapshot[1].users
            groups == builtSnapshot[1].groups
        IN  /\ \A i, j \in 1..Len(users) :
                   i # j => users[i].posixUid # users[j].posixUid
            /\ \A i, j \in 1..Len(groups) :
                   i # j => groups[i].posixGid # groups[j].posixGid
            /\ \A i \in 1..Len(users) : users[i].posixUid > floor

\* A snapshot built after a restart, with two users whose hashes collide, one
\* of them with an id from the sequential fallback, and with real and
\* synthetic groups
C25_Witness ==
    /\ builtSnapshot # Undefined
    /\ restarts = 1
    /\ salt = "low"
    /\ Len(builtSnapshot[1].users) = 2
    /\ \E i \in 1..Len(builtSnapshot[1].users) :
           builtSnapshot[1].users[i].posixUid = floor + 1
    /\ \E i, j \in 1..Len(builtSnapshot[1].groups) :
           builtSnapshot[1].groups[i].isSynthetic /\ ~builtSnapshot[1].groups[j].isSynthetic

\* C26: importMapping never changes the id of a key that already has a
\* mapping; and the sequential fallback of allocate only hands out ids greater
\* than the largest id an import has stored, and never an id that is taken.
C26_ImportKeepsMappings ==
    [][ /\ lastAllocation' = Undefined =>
               \A key \in DOMAIN uidAllocator.byKey :
                   /\ key \in DOMAIN uidAllocator'.byKey
                   /\ uidAllocator'.byKey[key] = uidAllocator.byKey[key]
        /\ (lastAllocation' # Undefined /\ ~lastAllocation'[1].result.hashed) =>
               /\ lastAllocation'[1].result.id > maxImported
               /\ lastAllocation'[1].result.id \notin DOMAIN uidAllocator.byId ]_vars

\* After an import of the id just above the floor, the fallback skipped the
\* id that a hashed key holds and handed out the next one
C26_Witness ==
    /\ maxImported = floor + 1
    /\ floor + 2 \in DOMAIN uidAllocator.byId
    /\ lastAllocation # Undefined
    /\ ~lastAllocation[1].result.hashed
    /\ ~lastAllocation[1].again
    /\ lastAllocation[1].result.id = floor + 3

\* Every pair the allocators hold is in the mapping store
AllocationsPersisted ==
    /\ \A key \in DOMAIN uidAllocator.byKey :
           [allocator |-> "uid", key |-> key, id |-> uidAllocator.byKey[key]] \in mappingStore
    /\ \A key \in DOMAIN gidAllocator.byKey :
           [allocator |-> "gid", key |-> key, id |-> gidAllocator.byKey[key]] \in mappingStore

\* Every user and group of the snapshot built last has the id it was given
\* first, be it before a restart
SnapshotKeepsFirstIds ==
    builtSnapshot # Undefined =>
        /\ \A i \in 1..Len(builtSnapshot[1].users) :
               builtSnapshot[1].users[i].posixUid
                   = everAssigned.uid[builtSnapshot[1].users[i].key]
        /\ \A i \in 1..Len(builtSnapshot[1].groups) :
               builtSnapshot[1].groups[i].posixGid
                   = everAssigned.gid[builtSnapshot[1].groups[i].key]

\* C27: with the mapping store enabled, every new key -> id allocation is
\* persisted (the stored pairs being loaded into both allocators before the
\* first build), so that after a restart with cleared in-memory allocators
\* every user and group gets the uidNumber / gidNumber it had before.
C27_RestartKeepsIds ==
    redisEnabled => (AllocationsPersisted /\ SnapshotKeepsFirstIds)

\* getAccessToken was called in this step and, for a cache entry with at
\* least / more than the buffer left (`fresh`), it returned the cached token
\* without fetching, and in every other case it started a fetch
ServesCachedExactlyWhen(fresh) ==
    lastCall' # lastCall =>
        LET c == lastCall'[1].caller IN
        IF fresh
        THEN /\ served'[c] = <<tokenCache[1].token>>
             /\ tokenFetches' = tokenFetches
             /\ callerPc' = callerPc
        ELSE /\ tokenFetches' = tokenFetches + 1
             /\ callerPc[c] = "idle" /\ callerPc'[c] = "fetching"
             /\ served' = served

\* C28 as stated: getAccessToken returns the cached token without fetching
\* exactly when the cache holds an entry for the key with
\* expiresAt - now >= 30 s; in every other case it fetches a new token.
C28_CachedWhileThirtySeconds ==
    [][ ServesCachedExactlyWhen(/\ tokenCache # Undefined
                                /\ tokenCache[1].expiresAt - now >= 30 * 1000) ]_vars

\* C28 amended: getAccessToken returns the cached token without fetching
\* exactly when the cache holds an entry for the key with
\* expiresAt - now > 30 s; in every other case, also with exactly 30 s left,
\* it fetches a new token.
C28_CachedWhileMoreThanThirty ==
    [][ ServesCachedExactlyWhen(/\ tokenCache # Undefined
                                /\ tokenCache[1].expiresAt - now > 30 * 1000) ]_vars

\* getAccessToken met a cached token with exactly 30 s left and fetched
C28_Witness ==
    /\ lastCall # Undefined
    /\ lastCall[1].hadEntry
    /\ lastCall[1].remaining = 30 * 1000
    /\ ~lastCall[1].fromCache
    /\ callerPc[lastCall[1].caller] = "fetching"
    /\ tokenFetches = 2

\* C29: for one cache key at most one token fetch is in flight at a time:
\* a caller that asks for the token while a fetch for the key is running
\* waits for that fetch and starts none of its own.
C29_OneFetchPerKey ==
    Cardinality({c \in Callers : callerPc[c] = "fetching"}) <= 1

\* C30: when the IdP rejects the adaptor's token with 401, the cached token is
\* evicted, a new token is fetched and the request is retried exactly once
\* before the build is reported as failed: a build that failed after a 401
\* has sent two requests, and a token fetch was started and the rejected token
\* left the cache in between.
C30_UnauthorizedRetriedOnce ==
    (build # Undefined /\ build.outcome = "failed" /\ build.unauthorized) =>
        /\ build.requests = 2
        /\ tokenFetches > build.fetchesBefore
        /\ tokenCache = Undefined \/ tokenCache[1].token # build.token

\* The ids of the groups a snapshot holds
GroupIds(snapshot) == {snapshot.groups[i].id : i \in 1..Len(snapshot.groups)}

\* C31: in every snapshot, each user's primaryGroupId and every element of
\* its memberGroupIds is the id of a group of that same snapshot, with the
\* feature synthetic_primary_group on or off.
C31_GroupIdsResolve ==
    builtSnapshot # Undefined /\ fetched # Undefined =>
        LET snapshot == builtSnapshot[1] IN
        \A j \in 1..Len(snapshot.users) :
            /\ snapshot.users[j].primaryGroupId \in GroupIds(snapshot)
            /\ \A i \in 1..Len(snapshot.users[j].memberGroupIds) :
                   snapshot.users[j].memberGroupIds[i] \in GroupIds(snapshot)

\* Alphabetical position of the user ids and usernames used here
IdOrder(id) ==
    CHOOSE i \in 1..5 : <<"alice", "bob", "carol", "dave", "erin">>[i] = id

\* C33: a build over the adaptor output a snapshot was built from, with the
\* allocators and feature flags as they are, gives the same users and groups
\* again, and the snapshot has its users sorted by username and each group's
\* members in ascending order.
C33_BuildsAreCanonical ==
    builtSnapshot # Undefined /\ fetched # Undefined =>
        LET snapshot == builtSnapshot[1] IN
        /\ buildSnapshotFrom(fetched[1]).snapshot = snapshot
        /\ \A j \in 1..(Len(snapshot.users) - 1) :
               IdOrder(snapshot.users[j].username) <= IdOrder(snapshot.users[j + 1].username)
        /\ \A g \in 1..Len(snapshot.groups) :
               \A i \in 1..(Len(snapshot.groups[g].memberUserIds) - 1) :
                   IdOrder(snapshot.groups[g].memberUserIds[i])
                       <= IdOrder(snapshot.groups[g].memberUserIds[i + 1])

\* C34: every group of a snapshot has at most maxGroupMembers memberUserIds,
\* and its truncated flag is true exactly when the adaptor supplied more than
\* maxGroupMembers members for it (one member too many gives maxGroupMembers
\* members and truncated = true); the synthetic groups, which the adaptor
\* does not supply, are not truncated.
C34_MembersCapped ==
    builtSnapshot # Undefined /\ fetched # Undefined =>
        LET snapshot == builtSnapshot[1]
            rawGroups == fetched[1].groups
        IN  \A g \in 1..Len(snapshot.groups) :
                /\ Len(snapshot.groups[g].memberUserIds) <= MaxGroupMembers
                /\ g <= Len(rawGroups) =>
                       /\ snapshot.groups[g].truncated
                              <=> Len(rawGroups[g].members) > MaxGroupMembers
                       /\ Len(rawGroups[g].members) = MaxGroupMembers + 1 =>
                              Len(snapshot.groups[g].memberUserIds) = MaxGroupMembers
                /\ g > Len(rawGroups) => ~snapshot.groups[g].truncated

\* A group the adaptor supplied with one member too many is in the snapshot,
\* cut to maxGroupMembers members and flagged, next to the synthetic groups
C34_Witness ==
    /\ builtSnapshot # Undefined /\ fetched # Undefined
    /\ syntheticPrimaryGroup
    /\ \E g \in 1..Len(fetched[1].groups) :
           /\ Len(fetched[1].groups[g].members) = MaxGroupMembers + 1
           /\ builtSnapshot[1].groups[g].truncated
           /\ builtSnapshot[1].groups[g].memberUserIds
                  = SubSeq(fetched[1].groups[g].members, 1, MaxGroupMembers)

\* C32: the snapshots published to the readers (the scheduler's
\* getCurrentSnapshot, the LDAP server, the search executor) carry strictly
\* increasing sequence numbers, in the order of publication.
C32_SequencesIncrease ==
    [][callbackCount' = callbackCount + 1 =>
          /\ currentSnapshot # Undefined =>
                 currentSnapshot'[1].sequence > currentSnapshot[1].sequence
          /\ srvSnapshot # Undefined =>
                 srvSnapshot'[1].sequence > srvSnapshot[1].sequence
          /\ executorSnapshot'[1].sequence > executorSnapshot[1].sequence]_vars

\* Two snapshots have been published, the second by a build that ran while
\* another build was in flight
C32_Witness ==
    /\ callbackCount >= 2
    /\ srvSnapshot # Undefined /\ srvSnapshot[1].sequence >= 2
    /\ InFlightCount > 0

\* C35: the readiness probe reports not ready whenever no snapshot has ever
\* been published.
C35_NotReadyWithoutSnapshot ==
    readiness # Undefined /\ ~readiness.published => ~readiness.ready

\* The probe was answered "not ready" before any snapshot was published, and
\* "ready" is what it answers once one is
C35_Witness ==
    /\ readiness # Undefined /\ ~readiness.published /\ ~readiness.ready
    /\ lastGood # Undefined

\* C36: the liveness probe fails only when the scheduler has halted after
\* maxRetries consecutive failures; in every other scheduler state (before
\* the first snapshot, refreshing, backing off) it reports alive.
C36_DeadOnlyWhenHalted ==
    liveness # Undefined /\ ~liveness.alive => liveness.halted

\* C37: every build attempt terminates: an IdP call that gets no answer is
\* given up and the attempt counts as a failed build, so the scheduler does
\* not stay in a refresh forever.
C37_BuildsTerminate == (InFlightCount > 0) ~> (InFlightCount = 0)

\* C38: every build sends the IdP a token that the token cache would still
\* serve at that time: once the token obtained at startup is within 30 s of
\* its expiry, a build does not send it any more.
C38_BuildsSendServableToken ==
    [][builds' = builds + 1 =>
          /\ cachedValid
          /\ tokenCache[1].token = build'.token]_vars

\* C39: however start(), stop() and a further start() are interleaved with a
\* build that is still in progress, at most one refresh timer is pending at
\* any time.
C39_OneTimerPending == Cardinality(pendingTimers) <= 1

\* Between start() and stop() nothing is left that would run a further build
C40_Idle ==
    /\ startCalled
    /\ InFlightCount = 0
    /\ retQueue = <<>>
    /\ pendingTimers = {}

\* C40: between start() and stop(), whenever isHealthy() returns true a build
\* is running or a refresh timer is pending, also after forceRefresh on a
\* scheduler that had halted after maxRetries consecutive failures.
C40_HealthyMeansRefreshing == ~(C40_Idle /\ isHealthy)

====
